---- MODULE Spec2Model ----
(***************************************************************************)
(* Guqin tuning calculator: the pitch model (music_theory.py), the table   *)
(* builder (guqin_tuning_calculator.py) and the interactive position table *)
(* (tui/widgets/position_table.py, tui/screens/main_screen.py).            *)
(*                                                                         *)
(* A Python str is a sequence of one-character strings.  The two musical   *)
(* signs are written by their code points: U+266F (sharp), U+266D (flat).  *)
(***************************************************************************)
EXTENDS Integers, Sequences, FiniteSets, TLC

VARIABLES
    note,        \* Note workbench: the Note object at hand
    call,        \* Note workbench: the last Note operation, its inputs and result
    calculator,  \* the GuqinTuningCalculator object, or the failure of its __init__
    tables,      \* the two PositionTable widgets, by name
    current_table, \* MainScreen.current_table
    ret,         \* the last PositionTable call: name, argument, returned value, receiver before
    steps,       \* number of input events handled so far
    screen       \* MainScreen: search_mode, command_mode, command_input, status_message,
                 \* and the screens the application shows

vars == <<note, call, calculator, tables, current_table, ret, steps, screen>>

(***************************************************************************)
(* Bounds of the model.                                                    *)
(***************************************************************************)
MaxOctave == 2
MaxSemitones == 13
MaxMidi == 40
MaxSteps == 3
MaxHeight == 9
MaxKeys == 3

(***************************************************************************)
(* Characters and Python's str primitives.                                 *)
(***************************************************************************)
SHARP == "U266F"
FLAT == "U266D"

LowerCase == <<"a","b","c","d","e","f","g","h","i","j","k","l","m",
               "n","o","p","q","r","s","t","u","v","w","x","y","z">>
UpperCase == <<"A","B","C","D","E","F","G","H","I","J","K","L","M",
               "N","O","P","Q","R","S","T","U","V","W","X","Y","Z">>
DigitChars == <<"0","1","2","3","4","5","6","7","8","9">>

IsDigit(c) == \E i \in 1..10 : DigitChars[i] = c
DigitValue(c) == (CHOOSE i \in 1..10 : DigitChars[i] = c) - 1
IsSpace(c) == c = " "

\* str.upper() on one character: the musical signs and digits have no case
UpperChar(c) ==
    IF \E i \in 1..26 : LowerCase[i] = c
    THEN UpperCase[CHOOSE i \in 1..26 : LowerCase[i] = c]
    ELSE c

\* str.upper()
Upper(s) == [i \in 1..Len(s) |-> UpperChar(s[i])]

\* str.strip(): leading and trailing white space removed
Strip(s) ==
    IF \A i \in 1..Len(s) : IsSpace(s[i]) THEN <<>>
    ELSE LET first == CHOOSE i \in 1..Len(s) :
                         /\ ~IsSpace(s[i])
                         /\ \A j \in 1..(i-1) : IsSpace(s[j])
             last == CHOOSE i \in 1..Len(s) :
                         /\ ~IsSpace(s[i])
                         /\ \A j \in (i+1)..Len(s) : IsSpace(s[j])
         IN SubSeq(s, first, last)

\* c in s
Contains(s, c) == \E i \in 1..Len(s) : s[i] = c

\* int(s) for a string of decimal digits
RECURSIVE DigitsToNat(_)
DigitsToNat(s) ==
    IF Len(s) = 0 THEN 0
    ELSE 10 * DigitsToNat(SubSeq(s, 1, Len(s) - 1)) + DigitValue(s[Len(s)])

\* the regular expression -?\d+
IsSignedDigits(s) ==
    LET body == IF Len(s) > 0 /\ s[1] = "-" THEN Tail(s) ELSE s
    IN  Len(body) > 0 /\ \A i \in 1..Len(body) : IsDigit(body[i])

\* int(s) for a string matching -?\d+
StrToInt(s) == IF s[1] = "-" THEN 0 - DigitsToNat(Tail(s)) ELSE DigitsToNat(s)

\* str(n) for n >= 0
RECURSIVE NatToStr(_)
NatToStr(n) ==
    IF n < 10 THEN <<DigitChars[n + 1]>>
    ELSE NatToStr(n \div 10) \o <<DigitChars[(n % 10) + 1]>>

\* f"{n}" for an int: a minus sign, then the decimal digits
IntToStr(n) == IF n < 0 THEN <<"-">> \o NatToStr(0 - n) ELSE NatToStr(n)

(***************************************************************************)
(* music_theory.Note                                                       *)
(***************************************************************************)
NOTE_TO_SEMITONE == [C |-> 0, D |-> 2, E |-> 4, F |-> 5, G |-> 7, A |-> 9, B |-> 11]

SEMITONE_TO_NOTE_sharps ==
    [s \in 0..11 |->
        CASE s = 0 -> <<"C">>         [] s = 1 -> <<"C", SHARP>>
          [] s = 2 -> <<"D">>         [] s = 3 -> <<"D", SHARP>>
          [] s = 4 -> <<"E">>         [] s = 5 -> <<"F">>
          [] s = 6 -> <<"F", SHARP>>  [] s = 7 -> <<"G">>
          [] s = 8 -> <<"G", SHARP>>  [] s = 9 -> <<"A">>
          [] s = 10 -> <<"A", SHARP>> [] s = 11 -> <<"B">>]

SEMITONE_TO_NOTE ==
    [s \in 0..11 |->
        CASE s = 0 -> <<"C">>         [] s = 1 -> <<"C", SHARP>>
          [] s = 2 -> <<"D">>         [] s = 3 -> <<"E", FLAT>>
          [] s = 4 -> <<"E">>         [] s = 5 -> <<"F">>
          [] s = 6 -> <<"F", SHARP>>  [] s = 7 -> <<"G">>
          [] s = 8 -> <<"A", FLAT>>   [] s = 9 -> <<"A">>
          [] s = 10 -> <<"B", FLAT>>  [] s = 11 -> <<"B">>]

ACCIDENTAL_MAP ==
    [c \in {"#", "b", SHARP, FLAT} |-> IF c \in {"#", SHARP} THEN SHARP ELSE FLAT]

\* the characters the pattern's first group [A-Ga-g] accepts
PitchLetters == {"A","B","C","D","E","F","G","a","b","c","d","e","f","g"}

\* a Note whose construction raised ValueError
NoNote == [ok |-> FALSE, original_name |-> <<>>, pitch_class |-> <<>>,
           octave |-> 0, midi_number |-> 0]

NoMatch == [ok |-> FALSE, pitch |-> "", accidental |-> <<>>, octave |-> <<>>]

\* the groups of a name whose letter and accidental are matched: the rest must be -?\d+
match_groups(note_name, accidental) ==
    IF IsSignedDigits(SubSeq(note_name, 2 + Len(accidental), Len(note_name)))
    THEN [ok |-> TRUE, pitch |-> note_name[1], accidental |-> accidental,
          octave |-> SubSeq(note_name, 2 + Len(accidental), Len(note_name))]
    ELSE NoMatch

\* re.match(r'^([A-Ga-g])([#b...]?)(-?\d+)$', note_name): the three groups, or no match
match_note(note_name) ==
    IF Len(note_name) < 2 \/ note_name[1] \notin PitchLetters THEN NoMatch
    ELSE match_groups(note_name,
                      IF note_name[2] \in DOMAIN ACCIDENTAL_MAP
                      THEN <<note_name[2]>> ELSE <<>>)

\* _parse_note after the match: the letter upper-cased, the accidental mapped,
\* the octave converted; ok = FALSE for ValueError
parse_groups(m) ==
    IF ~m.ok THEN [ok |-> FALSE, pitch_class |-> <<>>, octave |-> 0]
    ELSE [ok |-> TRUE,
          pitch_class |-> IF Len(m.accidental) > 0
                          THEN <<UpperChar(m.pitch), ACCIDENTAL_MAP[m.accidental[1]]>>
                          ELSE <<UpperChar(m.pitch)>>,
          octave |-> StrToInt(m.octave)]

\* Note._parse_note
parse_note(note_name) == parse_groups(match_note(note_name))

\* Note._to_midi
to_midi(pitch_class, octave) ==
    LET base_note == pitch_class[1]
        semitone == NOTE_TO_SEMITONE[base_note]
        adjust == IF Len(pitch_class) > 1
                  THEN IF Contains(pitch_class, SHARP) \/ Contains(pitch_class, "#") THEN 1
                       ELSE IF Contains(pitch_class, FLAT) \/ Contains(pitch_class, "b") THEN -1
                       ELSE 0
                  ELSE 0
    IN  (octave + 1) * 12 + semitone + adjust

\* Note.__init__ after _parse_note returned p
new_note(note_name, p) ==
    IF ~p.ok THEN NoNote
    ELSE [ok |-> TRUE, original_name |-> note_name, pitch_class |-> p.pitch_class,
          octave |-> p.octave, midi_number |-> to_midi(p.pitch_class, p.octave)]

\* Note.__init__
Note(note_name) == new_note(note_name, parse_note(note_name))

\* a get_note_name that loses the sign of the octave
get_note_name_unsigned(n) ==
    n.pitch_class \o NatToStr(IF n.octave < 0 THEN 0 - n.octave ELSE n.octave)

\* Note.get_note_name
get_note_name(n) == n.pitch_class \o IntToStr(n.octave)

\* Note.get_base_note
get_base_note(n) == <<n.pitch_class[1]>>

\* a from_midi that takes the octave from int(midi_number / 12), rounding towards zero
from_midi_truncating(midi_number) ==
    LET quotient == IF midi_number >= 0 THEN midi_number \div 12
                    ELSE 0 - ((0 - midi_number) \div 12)
        octave == quotient - 1
        semitone == midi_number % 12
    IN  Note(SEMITONE_TO_NOTE[semitone] \o IntToStr(octave))

\* Note.from_midi
from_midi(midi_number) ==
    LET octave == (midi_number \div 12) - 1
        semitone == midi_number % 12
        pitch_class == SEMITONE_TO_NOTE[semitone]
        note_name == pitch_class \o IntToStr(octave)
    IN  Note(note_name)

\* Note.transpose
transpose(n, semitones) == from_midi(n.midi_number + semitones)

(***************************************************************************)
(* music_theory.Interval.  Interval and position names are opaque labels:  *)
(* the program only looks them up, so each is written in Latin letters.    *)
(***************************************************************************)
INTERVAL_MAP ==
    [major17 |-> 28, major16 |-> 26, fifteenth |-> 24, major13 |-> 21,
     perfect12 |-> 19, perfect11 |-> 17, major10 |-> 16, minor10 |-> 15,
     major9 |-> 14, octave |-> 12, major7 |-> 11, minor7 |-> 10,
     major6 |-> 9, minor6 |-> 8, perfect5 |-> 7, perfect4 |-> 5,
     major3 |-> 4, minor3 |-> 3, major2 |-> 2, minor2 |-> 1,
     perfect22 |-> 36, perfect19 |-> 31,
     minor9_perfect5 |-> 20, major9_perfect5 |-> 21]

\* Python's None where an Optional value is returned
None == [some |-> FALSE, value |-> <<>>]
Some(v) == [some |-> TRUE, value |-> v]
NoneInt == [some |-> FALSE, value |-> 0]

\* a get_semitones that knows the intervals of the stopped notes only
get_semitones_stopped_only(interval_name) ==
    IF interval_name \in DOMAIN INTERVAL_MAP /\ INTERVAL_MAP[interval_name] <= 28
    THEN [some |-> TRUE, value |-> INTERVAL_MAP[interval_name]]
    ELSE NoneInt

\* Interval.get_semitones: dict.get, None when the name is not a key
get_semitones(interval_name) ==
    IF interval_name \in DOMAIN INTERVAL_MAP
    THEN [some |-> TRUE, value |-> INTERVAL_MAP[interval_name]]
    ELSE NoneInt

\* calculate_note's last line: target_note.get_note_name()
target_name(target_note) ==
    IF ~target_note.ok THEN None ELSE Some(get_note_name(target_note))

\* a transposition that goes down by the interval
transposed_name_downwards(n, semitones) ==
    IF ~n.ok THEN None ELSE target_name(transpose(n, 0 - semitones))

\* calculate_note's try block: None, through `except Exception`, when Note() raises
transposed_name(n, semitones) ==
    IF ~n.ok THEN None ELSE target_name(transpose(n, semitones))

\* calculate_note once the interval is looked up: None for an unknown interval
calculate_from(base_note, semitones) ==
    IF ~semitones.some THEN None
    ELSE transposed_name(Note(base_note), semitones.value)

\* Interval.calculate_note
calculate_note(base_note, interval_name) ==
    calculate_from(base_note, get_semitones(interval_name))

(***************************************************************************)
(* guqin_tuning_calculator.GuqinTuningCalculator                           *)
(***************************************************************************)
ANYIN_POSITIONS ==
    << <<"hui3", "major17">>,      <<"hui3_half", "major16">>,
       <<"hui4", "fifteenth">>,    <<"hui4_6", "major13">>,
       <<"hui5", "perfect12">>,    <<"hui5_6", "perfect11">>,
       <<"hui6", "major10">>,      <<"hui6_2", "minor10">>,
       <<"hui6_half", "major9">>,  <<"hui7", "octave">>,
       <<"hui7_3", "major7">>,     <<"hui7_6", "minor7">>,
       <<"hui7_9", "major6">>,     <<"hui8_half", "minor6">>,
       <<"hui9", "perfect5">>,     <<"hui10", "perfect4">>,
       <<"hui10_8", "major3">>,    <<"hui12", "minor3">>,
       <<"huiwai", "major2">> >>

\* a harmonics catalog whose hui12 carries the interval of the stopped hui12
FANYIN_POSITIONS_stopped_hui12 ==
    << <<"anhui4", "major9_perfect5">>, <<"hui13", "perfect22">>,
       <<"anhui3", "minor9_perfect5">>, <<"hui12", "minor3">>,
       <<"hui11", "major17">>,          <<"hui10", "fifteenth">>,
       <<"hui9", "perfect12">>,         <<"hui8", "major17">>,
       <<"hui7", "octave">>,            <<"hui6", "major17">>,
       <<"hui5", "perfect12">>,         <<"hui4", "fifteenth">>,
       <<"hui3", "major17">>,           <<"hui2", "perfect19">>,
       <<"anhui2", "minor9_perfect5">>, <<"hui1", "perfect22">>,
       <<"anhui1", "major9_perfect5">> >>

FANYIN_POSITIONS ==
    << <<"anhui4", "major9_perfect5">>, <<"hui13", "perfect22">>,
       <<"anhui3", "minor9_perfect5">>, <<"hui12", "perfect19">>,
       <<"hui11", "major17">>,          <<"hui10", "fifteenth">>,
       <<"hui9", "perfect12">>,         <<"hui8", "major17">>,
       <<"hui7", "octave">>,            <<"hui6", "major17">>,
       <<"hui5", "perfect12">>,         <<"hui4", "fifteenth">>,
       <<"hui3", "major17">>,           <<"hui2", "perfect19">>,
       <<"anhui2", "minor9_perfect5">>, <<"hui1", "perfect22">>,
       <<"anhui1", "major9_perfect5">> >>

\* the number of strings: range(7), len(tuning) != 7
NumStrings == 7

EmptyTable == [positions |-> <<>>, intervals |-> <<>>, strings |-> <<>>]

\* a cell text that writes None out instead of leaving the cell empty
or_empty_literal(n) == IF n.some THEN n.value ELSE <<"N", "o", "n", "e">>

\* note if note else ''
or_empty(n) == IF n.some /\ Len(n.value) > 0 THEN n.value ELSE <<>>

\* a _calculate_table that fills string i from the next string's open note
calculate_table_shifted(tuning, positions) ==
    [positions |-> [r \in 1..Len(positions) |-> positions[r][1]],
     intervals |-> [r \in 1..Len(positions) |-> positions[r][2]],
     strings |->
        [i \in 1..NumStrings |->
            [r \in 1..Len(positions) |->
                or_empty(calculate_note(tuning[(i % NumStrings) + 1], positions[r][2]))]]]

\* GuqinTuningCalculator._calculate_table: strings[i][r] is string i at position r
calculate_table(tuning, positions) ==
    [positions |-> [r \in 1..Len(positions) |-> positions[r][1]],
     intervals |-> [r \in 1..Len(positions) |-> positions[r][2]],
     strings |->
        [i \in 1..NumStrings |->
            [r \in 1..Len(positions) |->
                or_empty(calculate_note(tuning[i], positions[r][2]))]]]

\* no calculator object yet
NoCalculator == [state |-> "none", tuning |-> <<>>,
                 anyin_table |-> EmptyTable, fanyin_table |-> EmptyTable]

\* an __init__ that only refuses a tuning with fewer than 7 strings
GuqinTuningCalculator_at_least(tuning) ==
    IF Len(tuning) < NumStrings
    THEN [state |-> "ValueError", tuning |-> <<>>,
          anyin_table |-> EmptyTable, fanyin_table |-> EmptyTable]
    ELSE [state |-> "built", tuning |-> tuning,
          anyin_table |-> calculate_table(tuning, ANYIN_POSITIONS),
          fanyin_table |-> calculate_table(tuning, FANYIN_POSITIONS)]

\* GuqinTuningCalculator.__init__: ValueError unless there are 7 strings
GuqinTuningCalculator(tuning) ==
    IF Len(tuning) # NumStrings
    THEN [state |-> "ValueError", tuning |-> <<>>,
          anyin_table |-> EmptyTable, fanyin_table |-> EmptyTable]
    ELSE [state |-> "built", tuning |-> tuning,
          anyin_table |-> calculate_table(tuning, ANYIN_POSITIONS),
          fanyin_table |-> calculate_table(tuning, FANYIN_POSITIONS)]

(***************************************************************************)
(* Note workbench: Note objects built from tokens, then transposed,        *)
(* rebuilt from a MIDI number, or rebuilt from their own name.             *)
(***************************************************************************)
Accidentals == {<<>>, <<"#">>, <<"b">>, <<SHARP>>, <<FLAT>>}

\* octave digits as typed: plain, and with a redundant sign or leading zero
OctaveStrings ==
    {IntToStr(o) : o \in (0 - MaxOctave)..MaxOctave} \cup {<<"-", "0">>, <<"0", "3">>, <<"1", "0">>}

\* tokens that Note() rejects
MalformedTokens ==
    {<<>>, <<"C">>, <<"2">>, <<"H", "2">>, <<"C", "x", "2">>, <<"C", "#">>,
     <<"C", "-">>, <<"C", "#", "#", "2">>, <<"C", "2", "b">>, <<" ", "C", "2">>,
     <<"C", "+", "2">>}

NoteTokens ==
    {<<l>> \o a \o o : l \in PitchLetters, a \in Accidentals, o \in OctaveStrings}
        \cup MalformedTokens

\* no MainScreen has been created
NoScreen == <<>>

NoCall == [op |-> "Note", src |-> NoNote, arg |-> 0, out |-> NoNote]

NoteInit ==
    /\ \E tok \in NoteTokens :
          /\ note = Note(tok)
          /\ call = [op |-> "Note", src |-> NoNote, arg |-> 0, out |-> Note(tok)]
    /\ calculator = [state |-> "none", tuning |-> <<>>,
                     anyin_table |-> EmptyTable, fanyin_table |-> EmptyTable]
    /\ tables = <<>>
    /\ current_table = "stopped"
    /\ ret = <<>>
    /\ steps = 0
    /\ screen = NoScreen

\* note.transpose(s)
NoteTranspose ==
    \E s \in (0 - MaxSemitones)..MaxSemitones :
        /\ note.ok
        /\ note.midi_number + s \in (0 - MaxMidi)..MaxMidi
        /\ note' = transpose(note, s)
        /\ call' = [op |-> "transpose", src |-> note, arg |-> s, out |-> transpose(note, s)]
        /\ UNCHANGED <<calculator, tables, current_table, ret, steps, screen>>

\* Note.from_midi(n): a class method, called with no note at hand
NoteFromMidi ==
    \E n \in (0 - MaxMidi)..MaxMidi :
        /\ ~note.ok
        /\ note' = from_midi(n)
        /\ call' = [op |-> "from_midi", src |-> NoNote, arg |-> n, out |-> from_midi(n)]
        /\ UNCHANGED <<calculator, tables, current_table, ret, steps, screen>>

\* Note(note.get_note_name())
NoteReparse ==
    /\ note.ok
    /\ call.op # "reparse"
    /\ note' = Note(get_note_name(note))
    /\ call' = [op |-> "reparse", src |-> note, arg |-> 0, out |-> Note(get_note_name(note))]
    /\ UNCHANGED <<calculator, tables, current_table, ret, steps, screen>>

NoteNext == NoteTranspose \/ NoteFromMidi \/ NoteReparse

SpecNote == NoteInit /\ [][NoteNext]_vars

(***************************************************************************)
(* Building the calculator from a tuning given on the command line.        *)
(***************************************************************************)
\* the default tuning: C2 D2 F2 G2 A2 C3 D3
DefaultTuning ==
    << <<"C", "2">>, <<"D", "2">>, <<"F", "2">>, <<"G", "2">>,
       <<"A", "2">>, <<"C", "3">>, <<"D", "3">> >>

\* what may be typed for each string: the default, a respelling, a malformed token
StringChoices ==
    << {<<"C", "2">>, <<"B", "b", "1">>, <<"H", "2">>},
       {<<"D", "2">>, <<"e", FLAT, "2">>},
       {<<"F", "2">>, <<"E", "2">>, <<"F">>},
       {<<"G", "2">>, <<"f", "#", "2">>},
       {<<"A", "2">>, <<"A", "-", "1">>},
       {<<"C", "3">>, <<"c", "3">>},
       {<<"D", "3">>, <<"D", SHARP, "3">>, <<"3", "D">>} >>

TuningInputs ==
    {<<s1, s2, s3, s4, s5, s6, s7>> :
        s1 \in StringChoices[1], s2 \in StringChoices[2], s3 \in StringChoices[3],
        s4 \in StringChoices[4], s5 \in StringChoices[5], s6 \in StringChoices[6],
        s7 \in StringChoices[7]}
    \cup {SubSeq(DefaultTuning, 1, 6), DefaultTuning \o << <<"E", "3">> >>}

BuildInit ==
    /\ note = NoNote
    /\ call = NoCall
    /\ calculator = NoCalculator
    /\ tables = <<>>
    /\ current_table = "stopped"
    /\ ret = <<>>
    /\ steps = 0
    /\ screen = NoScreen

\* calculator = GuqinTuningCalculator(args.tuning)
NewCalculator ==
    \E tuning \in TuningInputs :
        /\ calculator.state = "none"
        /\ calculator' = GuqinTuningCalculator(tuning)
        /\ UNCHANGED <<note, call, tables, current_table, ret, steps, screen>>

BuildNext == NewCalculator

SpecBuild == BuildInit /\ [][BuildNext]_vars

(***************************************************************************)
(* tui.widgets.PositionTable: one widget per table.  Rows, columns and     *)
(* match coordinates count from 0 as in the code; column 0 is the position *)
(* label, columns 1..7 the strings, column 8 the interval.                 *)
(***************************************************************************)
\* DataTable.row_count: one row per position (_populate_table)
row_count(t) == Len(t.positions)

\* DataTable.column_count: the label column, the strings, the interval column
column_count(t) == 1 + NumStrings + 1

\* PositionTable.__init__ and on_mount: the reactive attributes at their defaults,
\* the cursor on the first cell
PositionTable(table_type, table_data) ==
    [table_type |-> table_type,
     positions |-> table_data.positions,
     intervals |-> table_data.intervals,
     strings_data |-> table_data.strings,
     cursor_row |-> 0,
     cursor_column |-> 0,
     highlighted_notes |-> {},
     search_matches |-> <<>>,
     current_match_index |-> -1]

Clamp(v, lo, hi) == IF v < lo THEN lo ELSE IF v > hi THEN hi ELSE v

\* DataTable.move_cursor(row=, column=): the coordinate is kept inside the grid
move_cursor(t, row, column) ==
    [t EXCEPT !.cursor_row = Clamp(row, 0, row_count(t) - 1),
              !.cursor_column = Clamp(column, 0, column_count(t) - 1)]

\* PositionTable.watch_current_match_index
watch_current_match_index(t, new_value) ==
    IF new_value >= 0 /\ new_value < Len(t.search_matches)
    THEN move_cursor(t, t.search_matches[new_value + 1][1], t.search_matches[new_value + 1][2])
    ELSE t

\* an assignment to current_match_index that always runs the watcher
set_current_match_index_always(t, value) ==
    watch_current_match_index([t EXCEPT !.current_match_index = value], value)

\* self.current_match_index = value: a reactive attribute runs its watcher
\* only when the value assigned differs from the one it holds
set_current_match_index(t, value) ==
    IF value = t.current_match_index THEN t
    ELSE watch_current_match_index([t EXCEPT !.current_match_index = value], value)

\* self.search_matches = value: the watcher only redraws
set_search_matches(t, value) == [t EXCEPT !.search_matches = value]

\* search_note's test of a cell that holds a name: nothing when Note() raises,
\* else the whole name or the base letter against the pattern
note_matches(note_name, n, pattern) ==
    /\ n.ok
    /\ \/ Upper(note_name) = pattern
       \/ get_base_note(n) = pattern

\* search_note's loop body: an empty cell is skipped
cell_matches(note_name, pattern) ==
    /\ Len(note_name) > 0
    /\ note_matches(note_name, Note(note_name), pattern)

\* search_note's inner loop: the matches of row pos_idx from string string_idx on
RECURSIVE scan_row(_, _, _, _)
scan_row(t, pattern, pos_idx, string_idx) ==
    IF string_idx >= NumStrings THEN <<>>
    ELSE (IF cell_matches(t.strings_data[string_idx + 1][pos_idx + 1], pattern)
          THEN << <<pos_idx, string_idx + 1>> >> ELSE <<>>)
         \o scan_row(t, pattern, pos_idx, string_idx + 1)

\* search_note's outer loop: the matches from row pos_idx on
RECURSIVE scan_matches(_, _, _)
scan_matches(t, pattern, pos_idx) ==
    IF pos_idx >= Len(t.positions) THEN <<>>
    ELSE scan_row(t, pattern, pos_idx, 0) \o scan_matches(t, pattern, pos_idx + 1)

\* the tunings the interface is started with: the default, and one with respelled
\* tokens and a token Note() rejects
StartTunings ==
    {DefaultTuning,
     << <<"B", "b", "1">>, <<"H", "2">>, <<"f", "#", "2">>, <<"G", "2">>,
        <<"A", "-", "1">>, <<"c", "3">>, <<"D", "3">> >>}

\* what may be searched for
Patterns ==
    {<<"E">>, <<"e">>, <<" ", "E", " ">>, <<"E", "4">>, <<"e", "4">>, <<"D", "2">>,
     <<"C", "3">>, <<"e", FLAT, "3">>, <<"E", "b", "3">>, <<"X">>, <<>>, <<" ">>}

\* the calculators of the start tunings
StartCalculators == {GuqinTuningCalculator(tuning) : tuning \in StartTunings}

\* the widgets as created over their tables
StartWidgets ==
    {PositionTable("stopped_notes", c.anyin_table) : c \in StartCalculators}
    \cup {PositionTable("harmonics", c.fanyin_table) : c \in StartCalculators}

\* the widget as it was created: search reads only what __init__ stored
AsCreated(t) ==
    PositionTable(t.table_type,
                  [positions |-> t.positions, intervals |-> t.intervals,
                   strings |-> t.strings_data])

\* scan_matches from the first row, tabulated for the start widgets and the
\* patterns searched for, so that each scan is evaluated once
ScanTable ==
    [w \in StartWidgets, pattern \in {Upper(Strip(p)) : p \in Patterns} \cup Patterns |->
        scan_matches(w, pattern, 0)]

\* the two loops of search_note
find_matches(t, pattern) ==
    IF <<AsCreated(t), pattern>> \in DOMAIN ScanTable
    THEN ScanTable[AsCreated(t), pattern]
    ELSE scan_matches(t, pattern, 0)

\* search_note's last three lines: the matches stored, the index set, the count returned
store_matches(t, matches) ==
    [table |-> set_current_match_index(set_search_matches(t, matches),
                                       IF Len(matches) > 0 THEN 0 ELSE -1),
     value |-> Len(matches)]

\* search_note once the pattern is stripped and upper-cased
search_pattern(t, pattern) ==
    IF Len(pattern) = 0
    THEN [table |-> set_current_match_index(set_search_matches(t, <<>>), -1), value |-> 0]
    ELSE store_matches(t, find_matches(t, pattern))

\* a search_note that compares the pattern as typed
search_note_verbatim(t, raw_pattern) == search_pattern(t, raw_pattern)

\* a search_note that keeps the old matches in front of the new ones
search_note_appending(t, raw_pattern) ==
    store_matches(t, t.search_matches \o find_matches(t, Upper(Strip(raw_pattern))))

\* PositionTable.search_note: the table after the call and the count returned
search_note(t, raw_pattern) == search_pattern(t, Upper(Strip(raw_pattern)))

\* a next_match that stops at the last match
next_match_saturating(t) ==
    IF Len(t.search_matches) = 0 THEN [table |-> t, value |-> FALSE]
    ELSE [table |-> set_current_match_index(t,
                        Clamp(t.current_match_index + 1, 0, Len(t.search_matches) - 1)),
          value |-> TRUE]

\* PositionTable.next_match
next_match(t) ==
    IF Len(t.search_matches) = 0 THEN [table |-> t, value |-> FALSE]
    ELSE [table |-> set_current_match_index(t,
                        (t.current_match_index + 1) % Len(t.search_matches)),
          value |-> TRUE]

\* a prev_match that steps back without wrapping around
prev_match_unwrapped(t) ==
    IF Len(t.search_matches) = 0 THEN [table |-> t, value |-> FALSE]
    ELSE [table |-> set_current_match_index(t, t.current_match_index - 1), value |-> TRUE]

\* PositionTable.prev_match
prev_match(t) ==
    IF Len(t.search_matches) = 0 THEN [table |-> t, value |-> FALSE]
    ELSE [table |-> set_current_match_index(t,
                        (t.current_match_index - 1) % Len(t.search_matches)),
          value |-> TRUE]

\* a clear_search that empties the highlights with the matches
clear_search_with_highlights(t) ==
    [set_current_match_index(set_search_matches(t, <<>>), -1) EXCEPT !.highlighted_notes = {}]

\* PositionTable.clear_search
clear_search(t) == set_current_match_index(set_search_matches(t, <<>>), -1)

\* a highlight_note that adds the name to the names already highlighted
highlight_note_adding(t, note_name) ==
    [t EXCEPT !.highlighted_notes = @ \cup {note_name}]

\* a highlight_note that also drops the matches of the search
highlight_note_clearing_search(t, note_name) ==
    [t EXCEPT !.highlighted_notes = {note_name},
              !.search_matches = <<>>,
              !.current_match_index = -1]

\* PositionTable.highlight_note
highlight_note(t, note_name) == [t EXCEPT !.highlighted_notes = {note_name}]

\* a clear_highlights that blanks the highlighted cells instead of their style
clear_highlights_wiping(t) ==
    [t EXCEPT !.highlighted_notes = {},
              !.strings_data =
                  [i \in 1..NumStrings |->
                      [r \in 1..Len(t.positions) |->
                          IF t.strings_data[i][r] \in t.highlighted_notes
                          THEN <<>> ELSE t.strings_data[i][r]]]]

\* PositionTable.clear_highlights
clear_highlights(t) == [t EXCEPT !.highlighted_notes = {}]

\* PositionTable.get_current_note: None on the label and interval columns, else
\* the text of the cell, which is '' for an empty cell
get_current_note(t) ==
    IF t.cursor_column = 0 \/ t.cursor_column >= 8 THEN None
    ELSE IF /\ t.cursor_row < Len(t.positions)
            /\ 0 <= t.cursor_column - 1
            /\ t.cursor_column - 1 < 7
         THEN Some(t.strings_data[t.cursor_column][t.cursor_row + 1])
         ELSE None

\* `if note:` in action_highlight_current: a name that is neither None nor ''
is_note(n) == n.some /\ Len(n.value) > 0

\* the widget after MainScreen.action_highlight_current, `n` being what
\* get_current_note returned
highlight_if_note(t, n) == IF is_note(n) THEN highlight_note(t, n.value) ELSE t

\* an action_move_up that does not look at the first row
action_move_up_unbounded(t) == [t EXCEPT !.cursor_row = @ - 1]

\* PositionTable.action_move_left
action_move_left(t) ==
    IF t.cursor_column > 0 THEN move_cursor(t, t.cursor_row, t.cursor_column - 1) ELSE t

\* PositionTable.action_move_right
action_move_right(t) ==
    IF t.cursor_column < column_count(t) - 1
    THEN move_cursor(t, t.cursor_row, t.cursor_column + 1) ELSE t

\* PositionTable.action_move_up
action_move_up(t) ==
    IF t.cursor_row > 0 THEN move_cursor(t, t.cursor_row - 1, t.cursor_column) ELSE t

\* PositionTable.action_move_down
action_move_down(t) ==
    IF t.cursor_row < row_count(t) - 1
    THEN move_cursor(t, t.cursor_row + 1, t.cursor_column) ELSE t

\* a page size without the floor of one row: self.size.height // 4
page_size_unfloored(height) == height \div 4

\* max(1, self.size.height // 4)
page_size(height) == IF height \div 4 > 1 THEN height \div 4 ELSE 1

\* PositionTable.action_half_page_down
action_half_page_down(t, height) ==
    LET new_row == IF t.cursor_row + page_size(height) < row_count(t) - 1
                   THEN t.cursor_row + page_size(height) ELSE row_count(t) - 1
    IN  move_cursor(t, new_row, t.cursor_column)

\* PositionTable.action_half_page_up
action_half_page_up(t, height) ==
    LET new_row == IF t.cursor_row - page_size(height) > 0
                   THEN t.cursor_row - page_size(height) ELSE 0
    IN  move_cursor(t, new_row, t.cursor_column)

(***************************************************************************)
(* The interactive tables: the two widgets, the table that has the focus,  *)
(* and the key bindings that act on it.                                    *)
(***************************************************************************)
TableNames == {"stopped", "harmonics"}

\* the part of a widget that navigation and search change
Nav(t) ==
    [cursor_row |-> t.cursor_row, cursor_column |-> t.cursor_column,
     highlighted_notes |-> t.highlighted_notes,
     search_matches |-> t.search_matches,
     current_match_index |-> t.current_match_index]

\* the record of a PositionTable call: the operation, the widget it was called
\* on, its argument, what it returned, and the widget's navigation state before
Called(op, pattern, count, ok) ==
    [op |-> op, table |-> current_table, pattern |-> pattern, count |-> count,
     ok |-> ok, before |-> Nav(tables[current_table])]

\* MainScreen._create_stopped_table / _create_harmonics_table: the widgets over
\* the calculator's two tables; MainScreen.__init__: the focus on the stopped table
Init ==
    /\ note = NoNote
    /\ call = NoCall
    /\ \E tuning \in StartTunings : calculator = GuqinTuningCalculator(tuning)
    /\ tables = [k \in TableNames |->
                    IF k = "stopped"
                    THEN PositionTable("stopped_notes", calculator.anyin_table)
                    ELSE PositionTable("harmonics", calculator.fanyin_table)]
    /\ current_table = "stopped"
    /\ ret = [op |-> "mount", table |-> "stopped", pattern |-> <<>>, count |-> 0,
              ok |-> FALSE, before |-> Nav(tables["stopped"])]
    /\ steps = 0
    /\ screen = NoScreen

\* MainScreen._get_current_table
get_current_table == tables[current_table]

\* the focused widget becomes t; everything else stays
Handled(t, called) ==
    /\ steps' = steps + 1
    /\ tables' = [tables EXCEPT ![current_table] = t]
    /\ ret' = called
    /\ UNCHANGED <<note, call, calculator, current_table, screen>>

\* a call that returned a count
ReturnedCount(op, pattern, r) ==
    Handled(r.table, Called(op, pattern, r.value, r.value > 0))

\* a call that returned True or False
ReturnedBool(op, r) == Handled(r.table, Called(op, <<>>, 0, r.value))

\* MainScreen._execute_command_line, search branch: table.search_note(pattern)
SearchNote ==
    /\ steps < MaxSteps
    /\ \E pattern \in Patterns :
          ReturnedCount("search_note", pattern, search_note(get_current_table, pattern))

\* MainScreen.action_next_match
NextMatch ==
    /\ steps < MaxSteps
    /\ ReturnedBool("next_match", next_match(get_current_table))

\* MainScreen.action_prev_match
PrevMatch ==
    /\ steps < MaxSteps
    /\ ReturnedBool("prev_match", prev_match(get_current_table))

\* key h
MoveLeft ==
    /\ steps < MaxSteps
    /\ Handled(action_move_left(get_current_table), Called("move_left", <<>>, 0, TRUE))

\* key l
MoveRight ==
    /\ steps < MaxSteps
    /\ Handled(action_move_right(get_current_table), Called("move_right", <<>>, 0, TRUE))

\* key k
MoveUp ==
    /\ steps < MaxSteps
    /\ Handled(action_move_up(get_current_table), Called("move_up", <<>>, 0, TRUE))

\* key j
MoveDown ==
    /\ steps < MaxSteps
    /\ Handled(action_move_down(get_current_table), Called("move_down", <<>>, 0, TRUE))

\* key ctrl+d, the widget being `height` lines high
HalfPageDown ==
    /\ steps < MaxSteps
    /\ \E height \in 0..MaxHeight :
          Handled(action_half_page_down(get_current_table, height),
                  Called("half_page_down", <<>>, height, TRUE))

\* key ctrl+u, the widget being `height` lines high
HalfPageUp ==
    /\ steps < MaxSteps
    /\ \E height \in 0..MaxHeight :
          Handled(action_half_page_up(get_current_table, height),
                  Called("half_page_up", <<>>, height, TRUE))

\* MainScreen.action_goto_top
GotoTop ==
    /\ steps < MaxSteps
    /\ Handled(move_cursor(get_current_table, 0, get_current_table.cursor_column),
               Called("goto_top", <<>>, 0, TRUE))

\* MainScreen.action_goto_bottom
GotoBottom ==
    /\ steps < MaxSteps
    /\ Handled(move_cursor(get_current_table, Len(get_current_table.positions) - 1,
                           get_current_table.cursor_column),
               Called("goto_bottom", <<>>, 0, TRUE))

\* PositionTable.clear_search
ClearSearch ==
    /\ steps < MaxSteps
    /\ Handled(clear_search(get_current_table), Called("clear_search", <<>>, 0, TRUE))

\* MainScreen.action_highlight_current
HighlightCurrent ==
    /\ steps < MaxSteps
    /\ Handled(highlight_if_note(get_current_table, get_current_note(get_current_table)),
               Called("highlight_current", <<>>, 0, is_note(get_current_note(get_current_table))))

\* an action_switch_table that puts the cursor of the table it leaves on the first cell
SwitchTableResetting ==
    /\ steps < MaxSteps
    /\ steps' = steps + 1
    /\ current_table' = IF current_table = "stopped" THEN "harmonics" ELSE "stopped"
    /\ tables' = [tables EXCEPT ![current_table] = move_cursor(@, 0, 0)]
    /\ ret' = Called("switch_table", <<>>, 0, TRUE)
    /\ UNCHANGED <<note, call, calculator, screen>>

\* MainScreen.action_switch_table
SwitchTable ==
    /\ steps < MaxSteps
    /\ steps' = steps + 1
    /\ current_table' = IF current_table = "stopped" THEN "harmonics" ELSE "stopped"
    /\ ret' = Called("switch_table", <<>>, 0, TRUE)
    /\ UNCHANGED <<note, call, calculator, tables, screen>>

Next ==
    \/ SearchNote \/ NextMatch \/ PrevMatch
    \/ MoveLeft \/ MoveRight \/ MoveUp \/ MoveDown
    \/ HalfPageDown \/ HalfPageUp \/ GotoTop \/ GotoBottom
    \/ SwitchTable \/ ClearSearch \/ HighlightCurrent

Spec == Init /\ [][Next]_vars

(***************************************************************************)
(* tui.screens.MainScreen: the modal command line over the two widgets.    *)
(* A screen state `s` holds the widgets, the focus and the MainScreen      *)
(* attributes; each handler is the state after it has run.                 *)
(***************************************************************************)
\* str.lower on the letters that are typed
LowerChar(c) ==
    IF \E i \in 1..Len(UpperCase) : UpperCase[i] = c
    THEN LowerCase[CHOOSE i \in 1..Len(UpperCase) : UpperCase[i] = c]
    ELSE c

Lower(s) == [i \in 1..Len(s) |-> LowerChar(s[i])]

\* str.split(): the maximal runs of characters that are not white space
RECURSIVE split_from(_, _, _)
split_from(s, i, word) ==
    IF i > Len(s) THEN (IF word = <<>> THEN <<>> ELSE <<word>>)
    ELSE IF IsSpace(s[i])
         THEN (IF word = <<>> THEN <<>> ELSE <<word>>) \o split_from(s, i + 1, <<>>)
         ELSE split_from(s, i + 1, Append(word, s[i]))

split(s) == split_from(s, 1, <<>>)

\* value.startswith(c)
startswith(value, c) == Len(value) > 0 /\ value[1] = c

\* a status line: the message and what is formatted into it
Status(msg, n, m, text) == [msg |-> msg, n |-> n, m |-> m, text |-> text]

\* the instance attributes GuqinTuningCalculator.__init__ assigns
CalculatorAttributes == {"tuning", "anyin_table", "fanyin_table"}

\* self.calculator.<name>: the value of the attribute, or AttributeError when
\* the calculator has no attribute of that name
calculator_attribute(calc, name) ==
    IF name \in CalculatorAttributes
    THEN [raised |-> "none", value |-> calc[name]]
    ELSE [raised |-> "AttributeError", value |-> EmptyTable]

\* the PositionTable(...) call of _create_stopped_table and
\* _create_harmonics_table over the table data that was read
create_table(table_type, table_data) ==
    IF table_data.raised # "none"
    THEN [raised |-> table_data.raised, widget |-> PositionTable(table_type, EmptyTable)]
    ELSE [raised |-> "none", widget |-> PositionTable(table_type, table_data.value)]

\* MainScreen._create_stopped_table
create_stopped_table(calc) ==
    create_table("stopped_notes", calculator_attribute(calc, "stopped_notes_table"))

\* MainScreen._create_harmonics_table
create_harmonics_table(calc) ==
    create_table("harmonics", calculator_attribute(calc, "harmonics_table"))

\* In what follows the two widgets stand over calc.anyin_table and
\* calc.fanyin_table, the tables the calculator holds.

\* MainScreen.__init__ over a calculator, and compose with on_mount: the two
\* widgets, the focus on the stopped table, no mode, the command line hidden
MainScreen(calc) ==
    [tables |-> [k \in TableNames |->
                    IF k = "stopped"
                    THEN PositionTable("stopped_notes", calc.anyin_table)
                    ELSE PositionTable("harmonics", calc.fanyin_table)],
     current_table |-> "stopped",
     search_mode |-> FALSE,
     command_mode |-> FALSE,
     status_message |-> Status("ready", 0, 0, <<>>),
     command_input |-> <<>>,
     screen_stack |-> <<"MainScreen">>]

\* MainScreen._get_current_table
focused_table(s) == s.tables[s.current_table]

\* the focused widget becomes t
with_focused_table(s, t) == [s EXCEPT !.tables[s.current_table] = t]

\* MainScreen._update_status
update_status(s, message) == [s EXCEPT !.status_message = message]

\* MainScreen._show_command_line
show_command_line(s, prefix) == [s EXCEPT !.command_input = prefix]

\* MainScreen._hide_command_line
hide_command_line(s) == [s EXCEPT !.command_input = <<>>]

\* MainScreen.action_quit: the application exits and shows no screen any more
action_quit(s) == [s EXCEPT !.screen_stack = <<>>]

\* MainScreen.action_help: the help screen is pushed over the main screen
action_help(s) == [s EXCEPT !.screen_stack = Append(@, "HelpScreen")]

\* an action_search that does not switch the command mode off
action_search_keeping_command(s) ==
    update_status(
        show_command_line([s EXCEPT !.search_mode = TRUE], <<"/">>),
        Status("search_mode", 0, 0, <<>>))

\* MainScreen.action_search
action_search(s) ==
    update_status(
        show_command_line([s EXCEPT !.search_mode = TRUE, !.command_mode = FALSE], <<"/">>),
        Status("search_mode", 0, 0, <<>>))

\* MainScreen.action_command
action_command(s) ==
    update_status(
        show_command_line([s EXCEPT !.command_mode = TRUE, !.search_mode = FALSE], <<":">>),
        Status("command_mode", 0, 0, <<>>))

\* the two branches of action_next_match and action_prev_match, `r` being what
\* table.next_match() or table.prev_match() returned and left of the widget
match_status(s, r) ==
    IF r.value
    THEN update_status(with_focused_table(s, r.table),
                       Status("match", r.table.current_match_index + 1,
                              Len(r.table.search_matches), <<>>))
    ELSE update_status(with_focused_table(s, r.table), Status("no_results", 0, 0, <<>>))

\* MainScreen.action_next_match
action_next_match(s) == match_status(s, next_match(focused_table(s)))

\* MainScreen.action_prev_match
action_prev_match(s) == match_status(s, prev_match(focused_table(s)))

\* an action_highlight_current that highlights the name in both widgets
highlight_status_everywhere(s, n) ==
    IF is_note(n)
    THEN update_status([s EXCEPT !.tables = [k \in TableNames |->
                                                highlight_note(s.tables[k], n.value)]],
                       Status("highlight", 0, 0, n.value))
    ELSE update_status(s, Status("no_note", 0, 0, <<>>))

\* the two branches of action_highlight_current, `n` being what
\* table.get_current_note() returned
highlight_status(s, n) ==
    IF is_note(n)
    THEN update_status(with_focused_table(s, highlight_note(focused_table(s), n.value)),
                       Status("highlight", 0, 0, n.value))
    ELSE update_status(s, Status("no_note", 0, 0, <<>>))

\* MainScreen.action_highlight_current
action_highlight_current(s) == highlight_status(s, get_current_note(focused_table(s)))

\* an action_clear that leaves the highlighted names
action_clear_search_only(s) ==
    update_status(
        hide_command_line(
            [s EXCEPT !.tables = [k \in TableNames |-> clear_search(s.tables[k])],
                      !.search_mode = FALSE,
                      !.command_mode = FALSE]),
        Status("cleared", 0, 0, <<>>))

\* MainScreen.action_clear: both widgets lose their matches and highlights
action_clear(s) ==
    update_status(
        hide_command_line(
            [s EXCEPT !.tables = [k \in TableNames |->
                                     clear_highlights(clear_search(s.tables[k]))],
                      !.search_mode = FALSE,
                      !.command_mode = FALSE]),
        Status("cleared", 0, 0, <<>>))

\* MainScreen.action_switch_table
action_switch_table(s) ==
    IF s.current_table = "stopped"
    THEN update_status([s EXCEPT !.current_table = "harmonics"],
                       Status("switched_harmonics", 0, 0, <<>>))
    ELSE update_status([s EXCEPT !.current_table = "stopped"],
                       Status("switched_stopped", 0, 0, <<>>))

\* MainScreen.action_retune
action_retune(s) == update_status(s, Status("retune_in_development", 0, 0, <<>>))

\* MainScreen.action_goto_top
action_goto_top(s) ==
    update_status(
        with_focused_table(s, move_cursor(focused_table(s), 0, focused_table(s).cursor_column)),
        Status("goto_top", 0, 0, <<>>))

\* MainScreen.action_goto_bottom
action_goto_bottom(s) ==
    update_status(
        with_focused_table(s, move_cursor(focused_table(s), Len(focused_table(s).positions) - 1,
                                          focused_table(s).cursor_column)),
        Status("goto_bottom", 0, 0, <<>>))

\* the verbs of _execute_command, as they are compared with parts[0].lower()
VerbHelp == <<"h", "e", "l", "p">>
VerbQuit == <<"q", "u", "i", "t">>
VerbQ == <<"q">>
VerbExport == <<"e", "x", "p", "o", "r", "t">>
VerbRetune == <<"r", "e", "t", "u", "n", "e">>
VerbLoad == <<"l", "o", "a", "d">>

\* an export branch without the try/except: the exception of
\* export_to_markdown leaves the handler and the application stops
command_export_uncaught(s, parts, export_ok) ==
    IF Len(parts) < 2 THEN update_status(s, Status("usage_export", 0, 0, <<>>))
    ELSE IF export_ok THEN update_status(s, Status("exported", 0, 0, parts[2]))
    ELSE [s EXCEPT !.screen_stack = <<>>]

\* the export branch: the usage line, or calculator.export_to_markdown, which
\* writes the file or raises
command_export(s, parts, export_ok) ==
    IF Len(parts) < 2 THEN update_status(s, Status("usage_export", 0, 0, <<>>))
    ELSE IF export_ok THEN update_status(s, Status("exported", 0, 0, parts[2]))
    ELSE update_status(s, Status("export_failed", 0, 0, <<>>))

\* an if/elif chain of _execute_command without the abbreviation q
command_verb_without_q(s, parts, cmd, export_ok) ==
    IF cmd = VerbHelp THEN action_help(s)
    ELSE IF cmd = VerbQuit THEN action_quit(s)
    ELSE IF cmd = VerbExport THEN command_export(s, parts, export_ok)
    ELSE IF cmd = VerbRetune
         THEN (IF Len(parts) < 8 THEN update_status(s, Status("usage_retune", 0, 0, <<>>))
               ELSE update_status(s, Status("retune_in_development", 0, 0, <<>>)))
    ELSE IF cmd = VerbLoad
         THEN (IF Len(parts) < 2 THEN update_status(s, Status("usage_load", 0, 0, <<>>))
               ELSE update_status(s, Status("load_in_development", 0, 0, <<>>)))
    ELSE update_status(s, Status("unknown_command", 0, 0, cmd))

\* the if/elif chain of _execute_command, cmd being parts[0].lower()
command_verb(s, parts, cmd, export_ok) ==
    IF cmd = VerbHelp THEN action_help(s)
    ELSE IF cmd = VerbQuit \/ cmd = VerbQ THEN action_quit(s)
    ELSE IF cmd = VerbExport THEN command_export(s, parts, export_ok)
    ELSE IF cmd = VerbRetune
         THEN (IF Len(parts) < 8 THEN update_status(s, Status("usage_retune", 0, 0, <<>>))
               ELSE update_status(s, Status("retune_in_development", 0, 0, <<>>)))
    ELSE IF cmd = VerbLoad
         THEN (IF Len(parts) < 2 THEN update_status(s, Status("usage_load", 0, 0, <<>>))
               ELSE update_status(s, Status("load_in_development", 0, 0, <<>>)))
    ELSE update_status(s, Status("unknown_command", 0, 0, cmd))

\* _execute_command once the command is split
command_parts(s, parts, export_ok) ==
    IF parts = <<>> THEN s ELSE command_verb(s, parts, Lower(parts[1]), export_ok)

\* MainScreen._execute_command
execute_command(s, command, export_ok) == command_parts(s, split(command), export_ok)

\* the search branch once table.search_note(pattern) has returned r
search_status(s, r, pattern) ==
    IF r.value > 0
    THEN update_status(with_focused_table(s, r.table), Status("found", r.value, 0, pattern))
    ELSE update_status(with_focused_table(s, r.table), Status("not_found", 0, 0, pattern))

\* the search branch of _execute_command_line, pattern being value[1:].strip()
search_line(s, pattern) ==
    IF Len(pattern) > 0
    THEN search_status(s, search_note(focused_table(s), pattern), pattern)
    ELSE update_status(s, Status("enter_pattern", 0, 0, <<>>))

\* a way out of the command line that leaves the mode on
leave_command_line_keeping_mode(s) == hide_command_line(s)

\* the last four lines of _execute_command_line, and its early return
leave_command_line(s) ==
    [hide_command_line(s) EXCEPT !.search_mode = FALSE, !.command_mode = FALSE]

\* _execute_command_line, value being self.command_input.strip()
execute_value(s, value, export_ok) ==
    IF Len(value) <= 1 THEN leave_command_line(s)
    ELSE IF startswith(value, "/") THEN leave_command_line(search_line(s, Strip(Tail(value))))
    ELSE IF startswith(value, ":")
         THEN leave_command_line(execute_command(s, Strip(Tail(value)), export_ok))
    ELSE leave_command_line(s)

\* MainScreen._execute_command_line
execute_command_line(s, export_ok) == execute_value(s, Strip(s.command_input), export_ok)

\* the keys whose name is one printable character
PrintableKeys ==
    {"E", "D", "2", "x", "q", "u", "i", "t", "e", "p", "o", "r", "n", "z", "Q",
     "N", "g", "G", "h", "j", "k", "l"}

\* len(event.key) == 1 and event.key.isprintable()
is_printable_key(key) == key \in PrintableKeys

\* a backspace branch that deletes the last character whatever the length
backspace_to_empty(s) ==
    IF Len(s.command_input) > 0
    THEN [s EXCEPT !.command_input = SubSeq(@, 1, Len(@) - 1)]
    ELSE s

\* the backspace branch of _on_key
backspace(s) ==
    IF Len(s.command_input) > 1
    THEN [s EXCEPT !.command_input = SubSeq(@, 1, Len(@) - 1)]
    ELSE s

\* the keys _on_key handles and stops while a mode is on
on_key_stops(key) ==
    key = "enter" \/ key = "escape" \/ key = "backspace" \/ is_printable_key(key)

\* MainScreen._on_key (and on_key, which calls it) while search_mode or command_mode
on_key(s, key, export_ok) ==
    IF key = "enter" THEN execute_command_line(s, export_ok)
    ELSE IF key = "escape" THEN action_clear(s)
    ELSE IF key = "backspace" THEN backspace(s)
    ELSE IF is_printable_key(key) THEN [s EXCEPT !.command_input = Append(@, key)]
    ELSE s

\* PositionTable.BINDINGS, all of priority=True
PriorityKeys == {"h", "j", "k", "l", "ctrl+d", "ctrl+u"}

\* the action a PositionTable binding runs on the widget
table_binding(t, key, height) ==
    CASE key = "h" -> action_move_left(t)
      [] key = "j" -> action_move_down(t)
      [] key = "k" -> action_move_up(t)
      [] key = "l" -> action_move_right(t)
      [] key = "ctrl+d" -> action_half_page_down(t, height)
      [] key = "ctrl+u" -> action_half_page_up(t, height)

\* MainScreen.BINDINGS: the keys bound; "g,g" binds the key g
ScreenKeys ==
    {"q", "question_mark", "slash", "colon", "n", "N", "asterisk", "escape", "tab",
     "r", "g", "G"}

\* the action a MainScreen binding runs
screen_binding(s, key) ==
    CASE key = "q" -> action_quit(s)
      [] key = "question_mark" -> action_help(s)
      [] key = "slash" -> action_search(s)
      [] key = "colon" -> action_command(s)
      [] key = "n" -> action_next_match(s)
      [] key = "N" -> action_prev_match(s)
      [] key = "asterisk" -> action_highlight_current(s)
      [] key = "escape" -> action_clear(s)
      [] key = "tab" -> action_switch_table(s)
      [] key = "r" -> action_retune(s)
      [] key = "g" -> action_goto_top(s)
      [] key = "G" -> action_goto_bottom(s)

\* one key press on the main screen: the priority bindings of the focused
\* widget come first, then the key event reaches _on_key, and a key that
\* _on_key did not stop runs the binding of the screen
key_event(s, key, height, export_ok) ==
    IF key \in PriorityKeys
    THEN with_focused_table(s, table_binding(focused_table(s), key, height))
    ELSE IF (s.search_mode \/ s.command_mode) /\ on_key_stops(key)
         THEN on_key(s, key, export_ok)
    ELSE IF key \in ScreenKeys THEN screen_binding(s, key)
    ELSE s

\* HelpScreen.on_key: escape and q pop the help screen
help_key(s, key) ==
    IF key = "escape" \/ key = "q"
    THEN [s EXCEPT !.screen_stack = SubSeq(@, 1, Len(@) - 1)]
    ELSE s

\* what is typed on the command line: each text letter by letter
Lines ==
    {<<"/", "E">>, <<"/", "D", "2">>, <<"/", "x">>,
     <<":", "q">>, <<":", "Q">>, <<":", "q", "u", "i", "t">>, <<":", "z">>,
     <<":", "e", "x", "p", "o", "r", "t">>, <<":", "r", "e", "t", "u", "n", "e">>}

LinePrefixes ==
    UNION {{SubSeq(line, 1, n) : n \in 1..Len(line)} : line \in Lines}

\* the one-character keys pressed while no mode is on
NormalKeys == {"q", "r", "n", "N", "g", "G", "x"}

\* a key sequence typed from state s, for a widget 9 lines high
RECURSIVE Run(_, _)
Run(s, keys) ==
    IF keys = <<>> THEN s
    ELSE Run(key_event(s, Head(keys), MaxHeight, TRUE), Tail(keys))

\* the sessions a run starts from: a fresh screen; a search for E, its first
\* match highlighted and the cursor moved on; a search for E on the harmonics
\* table, its first match highlighted, the next match taken, the focus given back
Preludes ==
    {<<>>,
     <<"slash", "E", "enter", "asterisk", "j">>,
     <<"tab", "slash", "E", "enter", "asterisk", "n", "tab">>}

\* the screen state held in the variables
Cur ==
    [tables |-> tables,
     current_table |-> current_table,
     search_mode |-> screen.search_mode,
     command_mode |-> screen.command_mode,
     status_message |-> screen.status_message,
     command_input |-> screen.command_input,
     screen_stack |-> screen.screen_stack]

\* the MainScreen attributes of a screen state
Attributes(s) ==
    [search_mode |-> s.search_mode,
     command_mode |-> s.command_mode,
     status_message |-> s.status_message,
     command_input |-> s.command_input,
     screen_stack |-> s.screen_stack]

\* the variables hold the screen state s
Holds(s) ==
    /\ tables = s.tables
    /\ current_table = s.current_table
    /\ screen = Attributes(s)

ScreenInit ==
    /\ note = NoNote
    /\ call = NoCall
    /\ \E tuning \in StartTunings : calculator = GuqinTuningCalculator(tuning)
    /\ \E prelude \in Preludes : Holds(Run(MainScreen(calculator), prelude))
    /\ ret = [op |-> "mount", table |-> "stopped", pattern |-> <<>>, count |-> 0,
              ok |-> FALSE, before |-> Nav(tables["stopped"])]
    /\ steps = 0

\* the key event `key`: the handlers leave the screen state s; the event is
\* recorded with the focus, the command line, the number of screens shown,
\* the mode and the focused widget's navigation state it met
Pressed(key, s, counted) ==
    /\ tables' = s.tables
    /\ current_table' = s.current_table
    /\ screen' = Attributes(s)
    /\ ret' = [op |-> key, table |-> current_table, pattern |-> screen.command_input,
               count |-> Len(screen.screen_stack),
               ok |-> screen.search_mode \/ screen.command_mode,
               before |-> Nav(tables[current_table])]
    /\ steps' = steps + counted
    /\ UNCHANGED <<note, call, calculator>>

\* the main screen is the one shown
OnMainScreen == screen.screen_stack = <<"MainScreen">>

InMode == screen.search_mode \/ screen.command_mode

\* h, j, k, l, ctrl+d, ctrl+u, the widget being `height` lines high
KeyPriority ==
    /\ steps < MaxKeys
    /\ OnMainScreen
    /\ \E key \in PriorityKeys, height \in {0, MaxHeight} :
          Pressed(key, key_event(Cur, key, height, TRUE), 1)

\* a character typed on the command line
KeyTyped ==
    /\ steps < MaxKeys
    /\ OnMainScreen
    /\ InMode
    /\ \E key \in PrintableKeys \ PriorityKeys :
          /\ Append(screen.command_input, key) \in LinePrefixes
          /\ Pressed(key, key_event(Cur, key, 0, TRUE), 0)

\* a one-character key pressed while no mode is on
KeyNormal ==
    /\ steps < MaxKeys
    /\ OnMainScreen
    /\ ~InMode
    /\ \E key \in NormalKeys : Pressed(key, key_event(Cur, key, 0, TRUE), 1)

KeyBackspace ==
    /\ steps < MaxKeys
    /\ OnMainScreen
    /\ Pressed("backspace", key_event(Cur, "backspace", 0, TRUE), IF InMode THEN 0 ELSE 1)

\* enter; an export started by it succeeds or fails
KeyEnter ==
    /\ steps < MaxKeys
    /\ OnMainScreen
    /\ \E export_ok \in BOOLEAN : Pressed("enter", key_event(Cur, "enter", 0, export_ok), 1)

KeyEscape ==
    /\ steps < MaxKeys
    /\ OnMainScreen
    /\ Pressed("escape", key_event(Cur, "escape", 0, TRUE), 1)

\* the keys with a name of several characters: / : * ? tab space
KeyNamed ==
    /\ steps < MaxKeys
    /\ OnMainScreen
    /\ \E key \in {"slash", "colon", "asterisk", "question_mark", "tab", "space"} :
          Pressed(key, key_event(Cur, key, 0, TRUE), 1)

\* escape or q on the help screen
KeyOnHelp ==
    /\ steps < MaxKeys
    /\ Len(screen.screen_stack) = 2
    /\ \E key \in {"escape", "q"} : Pressed(key, help_key(Cur, key), 1)

ScreenNext ==
    \/ KeyPriority \/ KeyTyped \/ KeyNormal \/ KeyBackspace
    \/ KeyEnter \/ KeyEscape \/ KeyNamed \/ KeyOnHelp

SpecScreen == ScreenInit /\ [][ScreenNext]_vars

(***************************************************************************)
(* Properties of the pitch model, checked under SpecNote.                  *)
(***************************************************************************)

\* C1: the linear pitch number of transpose(p, s) is that of p plus s, for every
\* parseable p and every s, negative results and negative octaves included.
TransposeAddsSemitones ==
    call.op = "transpose" =>
        /\ call.out.ok
        /\ call.out.midi_number = call.src.midi_number + call.arg

\* a transposition downwards that ends below octave -1, from a token typed in
\* lower case with an accidental
TransposeBelowZeroReached ==
    /\ call.op = "transpose"
    /\ call.arg < 0
    /\ call.out.midi_number < -12
    /\ call.out.octave < -1
    /\ call.src.original_name = <<"e", "b", "-", "2">>

\* C2: parsing the formatted name of a parsed token gives the same linear pitch
\* number as the token, whatever the case of the letter, the accidental sign
\* or the way the octave was typed.
ReparseKeepsPitch ==
    call.op = "reparse" =>
        /\ call.out.ok
        /\ call.out.midi_number = call.src.midi_number
        /\ call.out.midi_number = to_midi(call.src.pitch_class, call.src.octave)

\* a token in lower case, with the ASCII flat and a negative octave, whose
\* formatted name differs from it
RespelledTokenReparsed ==
    /\ call.op = "reparse"
    /\ call.src.original_name = <<"b", "b", "-", "2">>
    /\ call.out.original_name = <<"B", FLAT, "-", "2">>
    /\ call.out.midi_number = -2

\* the spelling the specification fixes for each semitone within the octave
CanonicalSpelling ==
    << <<"C">>, <<"C", SHARP>>, <<"D">>, <<"E", FLAT>>, <<"E">>, <<"F">>,
       <<"F", SHARP>>, <<"G">>, <<"A", FLAT>>, <<"A">>, <<"B", FLAT>>, <<"B">> >>

\* C3: from_midi(n) has octave floor(n / 12) - 1 and spells n mod 12 from the one
\* fixed table (sharps for C, F, G; flats for E, A, B), for negative n as well.
FromMidiSpelling ==
    call.op = "from_midi" =>
        LET n == call.arg
            first == 12 * (call.out.octave + 1)
        IN  /\ call.out.ok
            /\ first <= n
            /\ n < first + 12
            /\ call.out.pitch_class = CanonicalSpelling[n - first + 1]

\* an E flat below octave -1, from a negative number
NegativeFlatReached ==
    /\ call.op = "from_midi"
    /\ call.arg = -21
    /\ call.out.pitch_class = <<"E", FLAT>>
    /\ call.out.octave = -3

(***************************************************************************)
(* Properties of the table builder, checked under SpecBuild.               *)
(***************************************************************************)

\* a built table has the catalog's rows in the catalog's order, seven string
\* columns as long as the catalog, and cells that are empty or parseable
TableShape(table, catalog) ==
    /\ Len(table.positions) = Len(catalog)
    /\ Len(table.intervals) = Len(catalog)
    /\ \A r \in 1..Len(catalog) :
          /\ table.positions[r] = catalog[r][1]
          /\ table.intervals[r] = catalog[r][2]
    /\ Len(table.strings) = 7
    /\ \A i \in 1..7 :
          /\ Len(table.strings[i]) = Len(catalog)
          /\ \A r \in 1..Len(catalog) :
                \/ table.strings[i][r] = <<>>
                \/ Note(table.strings[i][r]).ok

\* C4: build(tuning, catalog) has len(catalog) rows in catalog order and 7
\* string columns, and every cell is empty or a pitch name parse accepts.
BuiltTableShape ==
    calculator.state = "built" =>
        /\ TableShape(calculator.anyin_table, ANYIN_POSITIONS)
        /\ TableShape(calculator.fanyin_table, FANYIN_POSITIONS)

\* a table with a column of empty cells beside columns of names
MixedTableBuilt ==
    /\ calculator.state = "built"
    /\ calculator.anyin_table.strings[1][1] = <<>>
    /\ calculator.anyin_table.strings[2][1] # <<>>
    /\ Len(calculator.fanyin_table.positions) = 17
    /\ Len(calculator.anyin_table.positions) = 19

\* every cell of a string with a parseable open note is that note raised by
\* the row's interval, in name and in linear pitch number
CellsTransposed(table, tuning) ==
    \A i \in 1..7 : \A r \in 1..Len(table.intervals) :
        (Note(tuning[i]).ok /\ table.intervals[r] \in DOMAIN INTERVAL_MAP) =>
            /\ table.strings[i][r] =
                  get_note_name(transpose(Note(tuning[i]), INTERVAL_MAP[table.intervals[r]]))
            /\ Note(table.strings[i][r]).midi_number =
                  Note(tuning[i]).midi_number + INTERVAL_MAP[table.intervals[r]]

\* the octave rows of a table hold `name` on string 1
OctaveRowHolds(table, name) ==
    /\ \E r \in 1..Len(table.intervals) : table.intervals[r] = "octave"
    /\ \A r \in 1..Len(table.intervals) :
          table.intervals[r] = "octave" => table.strings[1][r] = name

\* C5: for every row whose interval has a semitone mapping and every string, the
\* cell is format(transpose(tuning[string], semitones)); with the tuning
\* C2 D2 F2 G2 A2 C3 D3 the octave row of both tables has C3 on string 1.
BuiltCellsTransposed ==
    calculator.state = "built" =>
        /\ CellsTransposed(calculator.anyin_table, calculator.tuning)
        /\ CellsTransposed(calculator.fanyin_table, calculator.tuning)
        /\ calculator.tuning = DefaultTuning =>
              /\ OctaveRowHolds(calculator.anyin_table, <<"C", "3">>)
              /\ OctaveRowHolds(calculator.fanyin_table, <<"C", "3">>)

\* the tables of the default tuning, with C3 on string 1 at the seventh hui
DefaultTablesBuilt ==
    /\ calculator.state = "built"
    /\ calculator.tuning = DefaultTuning
    /\ calculator.anyin_table.strings[1][10] = <<"C", "3">>
    /\ calculator.fanyin_table.strings[1][9] = <<"C", "3">>
    /\ calculator.anyin_table.strings[7][1] = <<"F", SHARP, "5">>

\* C6: building from a tuning with a malformed token fails before any cell is
\* computed, so no table is produced for it.
MalformedTuningBuildsNothing ==
    calculator.state = "built" =>
        \A i \in 1..Len(calculator.tuning) : Note(calculator.tuning[i]).ok

(***************************************************************************)
(* Properties of search and match cycling, checked under Spec.             *)
(***************************************************************************)

\* the cells a search for the normalised pattern p must find: the non-empty
\* cells whose name, upper-cased, is p, or whose first letter is p
ExpectedMatches(t, p) ==
    {m \in (0..(Len(t.positions) - 1)) \X (1..7) :
        LET name == t.strings_data[m[2]][m[1] + 1]
        IN  /\ name # <<>>
            /\ \/ Upper(name) = p
               \/ <<name[1]>> = p}

\* (row, col) comes before (row', col') in row-major order
RowMajorBefore(a, b) == a[1] < b[1] \/ (a[1] = b[1] /\ a[2] < b[2])

\* C7: search(pattern) returns the number of non-empty note cells whose name
\* equals the trimmed, upper-cased pattern or whose base letter equals it; the
\* count is the same for 'e', ' E ' and 'E'.
SearchCountsMatchingCells ==
    ret.op = "search_note" =>
        /\ ret.count = Cardinality(ExpectedMatches(tables[ret.table], Upper(Strip(ret.pattern))))
        /\ ret.pattern \in {<<"e">>, <<" ", "E", " ">>, <<"E">>} =>
              ret.count = Cardinality(ExpectedMatches(tables[ret.table], <<"E">>))

\* a search for ' E ' in the stopped table of the default tuning finds its 23
\* cells of E and E flat
PaddedLetterSearched ==
    /\ ret.op = "search_note"
    /\ ret.pattern = <<" ", "E", " ">>
    /\ ret.table = "stopped"
    /\ calculator.tuning = DefaultTuning
    /\ ret.count = 23
    /\ <<0, 1>> \in ExpectedMatches(tables["stopped"], <<"E">>)

\* C8: after search(pattern) the match list is exactly the matching cells as
\* (row, string + 1), in strictly increasing row-major order, in place of the
\* previous list; the index is 0 if there is a match and -1 if not, and the
\* count returned is the length of the list.
SearchListsMatchesInOrder ==
    ret.op = "search_note" =>
        LET t == tables[ret.table]
            m == t.search_matches
        IN  /\ {m[j] : j \in 1..Len(m)} =
                  ExpectedMatches(t, Upper(Strip(ret.pattern)))
            /\ \A j \in 1..Len(m) : m[j][2] \in 1..7
            /\ \A j \in 1..Len(m) : \A k \in 1..Len(m) :
                  j < k => RowMajorBefore(m[j], m[k])
            /\ t.current_match_index = (IF Len(m) > 0 THEN 0 ELSE -1)
            /\ ret.count = Len(m)

\* a search that finds matches where an earlier search had left other ones
SecondSearchReplaced ==
    /\ ret.op = "search_note"
    /\ Len(ret.before.search_matches) > 1
    /\ Len(tables[ret.table].search_matches) > 1
    /\ tables[ret.table].search_matches[1] # ret.before.search_matches[1]
    /\ tables[ret.table].current_match_index = 0

\* next() or prev() by `step` (1 or -1) on the match list of before
CycledBy(step) ==
    LET before == ret.before
        t == tables[ret.table]
        n == Len(before.search_matches)
    IN  IF n = 0
        THEN ~ret.ok /\ Nav(t) = before
        ELSE /\ ret.ok
             /\ t.search_matches = before.search_matches
             /\ t.current_match_index \in 0..(n - 1)
             /\ \E wraps \in {-1, 0, 1} :
                   t.current_match_index = before.current_match_index + step + wraps * n

\* C9: with n matches next() moves the index to (index + 1) mod n and prev() to
\* (index - 1) mod n and both return true; with no match both return false
\* and leave the index, the matches and the cursor as they were.
MatchCyclingIsModular ==
    /\ ret.op = "next_match" => CycledBy(1)
    /\ ret.op = "prev_match" => CycledBy(-1)

\* next() from the last of several matches, back to the first
NextWrappedAround ==
    /\ ret.op = "next_match"
    /\ ret.ok
    /\ Len(ret.before.search_matches) > 1
    /\ ret.before.current_match_index = Len(ret.before.search_matches) - 1
    /\ tables[ret.table].current_match_index = 0

\* C10: after every successful next() or prev() the cursor is on the cell
\* searchMatches[currentMatchIndex], for every number of matches and wherever
\* the cursor was before.
CursorOnCurrentMatch ==
    (ret.op \in {"next_match", "prev_match"} /\ ret.ok) =>
        LET t == tables[ret.table]
            m == t.search_matches[t.current_match_index + 1]
        IN  t.cursor_row = m[1] /\ t.cursor_column = m[2]

\* C11: clear_search empties the match list and sets the index to none (-1),
\* leaves the highlighted names and the cursor as they were, and a second
\* call changes nothing more.
ClearSearchResets ==
    ret.op = "clear_search" =>
        LET t == tables[ret.table]
        IN  /\ t.search_matches = <<>>
            /\ t.current_match_index = -1
            /\ t.highlighted_notes = ret.before.highlighted_notes
            /\ t.cursor_row = ret.before.cursor_row
            /\ t.cursor_column = ret.before.cursor_column
            /\ clear_search(t) = t

\* matches and a highlighted name were there when clear_search was called
MatchesClearedBesideHighlight ==
    /\ ret.op = "clear_search"
    /\ Len(ret.before.search_matches) > 1
    /\ ret.before.current_match_index = 0
    /\ ret.before.highlighted_notes # {}
    /\ ret.before.cursor_row > 0

\* the cursor of a widget after a move of one cell by (d_row, d_column), which
\* does nothing when it would leave the grid
OneCellFrom(before, t, d_row, d_column) ==
    LET row == before.cursor_row + d_row
        column == before.cursor_column + d_column
        inside == row \in 0..(Len(t.positions) - 1) /\ column \in 0..8
    IN  /\ t.cursor_row = (IF inside THEN row ELSE before.cursor_row)
        /\ t.cursor_column = (IF inside THEN column ELSE before.cursor_column)

\* C17: the cursor of each table always has 0 <= row <= P - 1 and 0 <= col <= 8,
\* and a move of one cell changes one coordinate by one, or nothing at the
\* edge it moves towards.
CursorStaysInGrid ==
    /\ \A k \in TableNames :
          /\ tables[k].cursor_row \in 0..(Len(tables[k].positions) - 1)
          /\ tables[k].cursor_column \in 0..8
    /\ ret.op = "move_left" => OneCellFrom(ret.before, tables[ret.table], 0, -1)
    /\ ret.op = "move_right" => OneCellFrom(ret.before, tables[ret.table], 0, 1)
    /\ ret.op = "move_up" => OneCellFrom(ret.before, tables[ret.table], -1, 0)
    /\ ret.op = "move_down" => OneCellFrom(ret.before, tables[ret.table], 1, 0)

\* a move down from the last row of the harmonics table, which stays there
MoveDownAtLastRow ==
    /\ ret.op = "move_down"
    /\ ret.table = "harmonics"
    /\ ret.before.cursor_row = 16
    /\ tables["harmonics"].cursor_row = 16

\* C18: toggling the focus changes the focus flag from stopped to harmonics or
\* back and nothing in either table (cursor, highlighted names, matches,
\* index), so that two toggles restore the focus.
FocusToggleKeepsTables ==
    [][(ret'.op = "switch_table" /\ steps' # steps) =>
          /\ tables' = tables
          /\ current_table' = (IF current_table = "stopped" THEN "harmonics" ELSE "stopped")
          /\ ret'.table = current_table]_vars

\* the focus is back on the stopped table, which holds matches, a highlighted
\* name and a cursor off the first cell
FocusToggledBack ==
    /\ ret.op = "switch_table"
    /\ ret.table = "harmonics"
    /\ current_table = "stopped"
    /\ Len(tables["stopped"].search_matches) > 0
    /\ tables["stopped"].cursor_column > 0

(***************************************************************************)
(* Properties of the modal command line, checked under SpecScreen.         *)
(***************************************************************************)

\* enter arrived on the main screen while a mode was on
Confirmed == ret.op = "enter" /\ ret.ok /\ ret.count = 1

\* C12: confirming Search mode with nothing after the '/' clears the matches of
\* the focused table, sets the index to none, reports a status message and
\* returns to Normal.
EmptySearchConfirmClears ==
    (Confirmed /\ startswith(ret.pattern, "/") /\ Strip(Tail(ret.pattern)) = <<>>) =>
        /\ tables[ret.table].search_matches = <<>>
        /\ tables[ret.table].current_match_index = -1
        /\ screen.status_message.msg # "search_mode"
        /\ ~screen.search_mode
        /\ ~screen.command_mode

\* C13: after a confirm in Search or Command mode no mode is on and the input
\* buffer is empty, whatever the buffer held and whatever the search or the
\* command did.
ConfirmReturnsToNormal ==
    Confirmed =>
        /\ ~screen.search_mode
        /\ ~screen.command_mode
        /\ screen.command_input = <<>>

\* a confirmed command that is not known
UnknownCommandConfirmed ==
    /\ Confirmed
    /\ ret.pattern = <<":", "z">>
    /\ screen.status_message.msg = "unknown_command"
    /\ screen.command_input = <<>>
    /\ ~screen.command_mode

\* the cursor of every table is where it was
CursorsUnchanged ==
    \A k \in TableNames :
        /\ tables'[k].cursor_row = tables[k].cursor_row
        /\ tables'[k].cursor_column = tables[k].cursor_column

\* C14: Escape, in a mode and in Normal, leaves no mode on and the input buffer
\* empty, empties the highlighted names and the matches and sets the index
\* to none, and leaves every cursor and the focus where they were.
EscapeClearsAndKeepsCursor ==
    [][(ret'.op = "escape" /\ OnMainScreen) =>
          /\ ~screen'.search_mode
          /\ ~screen'.command_mode
          /\ screen'.command_input = <<>>
          /\ \A k \in TableNames :
                /\ tables'[k].highlighted_notes = {}
                /\ tables'[k].search_matches = <<>>
                /\ tables'[k].current_match_index = -1
          /\ CursorsUnchanged
          /\ current_table' = current_table]_vars

\* Escape in a mode, over matches, a highlighted name and a moved cursor
EscapeCancelledOverMatches ==
    /\ ret.op = "escape"
    /\ ret.ok
    /\ ret.count = 1
    /\ Len(ret.pattern) > 1
    /\ Len(ret.before.search_matches) > 0
    /\ ret.before.highlighted_notes # {}
    /\ ret.before.cursor_row > 0
    /\ tables[ret.table].cursor_row = ret.before.cursor_row
    /\ tables[ret.table].search_matches = <<>>

\* the keys that append their character while a mode is on
AppendedKeys == PrintableKeys \ PriorityKeys

\* C15: while a mode is on, appending a character and backspace change the
\* input buffer and nothing else, and the buffer keeps its first character,
\* '/' in Search mode and ':' in Command mode.
TypingChangesOnlyBuffer ==
    /\ [](InMode =>
            /\ Len(screen.command_input) >= 1
            /\ screen.command_input[1] = (IF screen.search_mode THEN "/" ELSE ":"))
    /\ [][(InMode /\ OnMainScreen /\ ret'.op \in AppendedKeys \cup {"backspace"}) =>
             /\ tables' = tables
             /\ current_table' = current_table
             /\ screen' = [screen EXCEPT !.command_input = screen'.command_input]
             /\ ret'.op \in AppendedKeys =>
                   screen'.command_input = Append(screen.command_input, ret'.op)
             /\ ret'.op = "backspace" =>
                   screen'.command_input =
                       (IF Len(screen.command_input) > 1
                        THEN SubSeq(screen.command_input, 1, Len(screen.command_input) - 1)
                        ELSE screen.command_input)]_vars

\* backspace on a buffer that holds the sigil alone, after a character was
\* typed and deleted
BackspaceAtSigil ==
    /\ ret.op = "backspace"
    /\ ret.ok
    /\ ret.pattern = <<"/">>
    /\ screen.command_input = <<"/">>
    /\ screen.search_mode

\* the keys of the Normal-state operations
OperationKeys ==
    {"h", "j", "k", "l", "ctrl+d", "ctrl+u", "g", "G", "tab", "asterisk", "n", "N"}

\* C16: while Search or Command mode is on, none of the Normal-state
\* operations changes the cursor, the focus, the highlighted names or the
\* search state.
OperationsIdleInMode ==
    (ret.ok /\ ret.count = 1 /\ ret.op \in OperationKeys) =>
        /\ Nav(tables[ret.table]) = ret.before
        /\ current_table = ret.table

\* C19: highlight-current makes the highlighted names of the focused table the
\* one name under the cursor when the cursor is on a note cell that is not
\* empty, and changes nothing when it is on column 0 or 8 or on an empty
\* cell; no table ever has more than one highlighted name.
HighlightCurrentIsSingleton ==
    /\ \A k \in TableNames : Cardinality(tables[k].highlighted_notes) <= 1
    /\ (ret.op = "asterisk" /\ ret.count = 1) =>
          LET t == tables[ret.table]
              column == ret.before.cursor_column
              name == IF column \in 1..7
                      THEN t.strings_data[column][ret.before.cursor_row + 1]
                      ELSE <<>>
          IN  IF name # <<>>
              THEN Nav(t) = [ret.before EXCEPT !.highlighted_notes = {name}]
              ELSE Nav(t) = ret.before

\* a second name highlighted in place of the first
HighlightReplaced ==
    /\ ret.op = "asterisk"
    /\ ret.count = 1
    /\ ret.before.highlighted_notes # {}
    /\ tables[ret.table].highlighted_notes # ret.before.highlighted_notes
    /\ Cardinality(tables[ret.table].highlighted_notes) = 1

\* the leading token of the command on the command line, in lower case
LeadingToken == Lower(split(Tail(screen.command_input))[1])

\* enter arrives on a command line that holds a token after the ':'
CommandConfirmed ==
    /\ ret'.op = "enter"
    /\ OnMainScreen
    /\ InMode
    /\ startswith(screen.command_input, ":")
    /\ split(Tail(screen.command_input)) # <<>>

\* the unknown command is reported and nothing else happens on the way to Normal
ReportedUnknown ==
    /\ screen'.status_message.msg = "unknown_command"
    /\ tables' = tables
    /\ current_table' = current_table
    /\ screen'.screen_stack = screen.screen_stack
    /\ ~screen'.search_mode
    /\ ~screen'.command_mode

\* C20 as stated: a confirmed command whose leading token is none of export,
\* retune, load, help, quit reports 'unknown command', changes no table or
\* navigation state, and returns to Normal.
FiveVerbsElseUnknown ==
    [][(CommandConfirmed
        /\ LeadingToken \notin {VerbExport, VerbRetune, VerbLoad, VerbHelp, VerbQuit}) =>
          ReportedUnknown]_vars

\* C20 amended: the leading token is compared in lower case with export,
\* retune, load, help, quit and q; q quits like quit, and any other token
\* reports 'unknown command', changes no table or navigation state, and
\* returns to Normal.
SixVerbsElseUnknown ==
    [][CommandConfirmed =>
          /\ LeadingToken \notin {VerbExport, VerbRetune, VerbLoad, VerbHelp, VerbQuit, VerbQ} =>
                ReportedUnknown
          /\ LeadingToken \in {VerbQuit, VerbQ} =>
                /\ screen'.screen_stack = <<>>
                /\ screen'.status_message = screen.status_message
                /\ ~screen'.command_mode]_vars

\* the command z was confirmed and reported
UnknownVerbReported ==
    /\ Confirmed
    /\ ret.pattern = <<":", "z">>
    /\ screen.status_message = Status("unknown_command", 0, 0, <<"z">>)
    /\ screen.screen_stack = <<"MainScreen">>

(***************************************************************************)
(* Retuning, checked under SpecScreen.                                     *)
(***************************************************************************)
\* the tunings a retune is asked for: seven pitches Note() accepts
RetuneTunings ==
    {DefaultTuning,
     << <<"D", "2">>, <<"E", "2">>, <<"G", "2">>, <<"A", "2">>,
        <<"B", "2">>, <<"D", "3">>, <<"E", "3">> >>}

\* the words of a command line joined by one space each
RECURSIVE JoinWords(_)
JoinWords(words) ==
    IF words = <<>> THEN <<>>
    ELSE IF Len(words) = 1 THEN words[1]
    ELSE words[1] \o <<" ">> \o JoinWords(Tail(words))

\* the command `retune` followed by the seven pitches of a tuning
RetuneCommand(tuning) == JoinWords(<<VerbRetune>> \o tuning)

\* C21: after a retune with 7 valid pitches, both tables hold exactly the cells
\* built from the new tuning and the navigation state of each table is reset
\* (cursor on the first cell, no match, no highlight).
RetuneRebuildsTables ==
    OnMainScreen =>
        \A tuning \in RetuneTunings :
            execute_command(Cur, RetuneCommand(tuning), TRUE).tables
                = MainScreen(GuqinTuningCalculator(tuning)).tables

(***************************************************************************)
(* Failures of the operations started from the command line, checked under *)
(* SpecScreen.                                                             *)
(***************************************************************************)
\* the table data a widget was created over
Cells(t) == [positions |-> t.positions, intervals |-> t.intervals, strings |-> t.strings_data]

\* the operation that took the screen from s to s2 reported one of msgs and
\* left the session alive in Normal mode, the cells, cursors and focus as in s
ReportedAndKept(s, s2, msgs) ==
    /\ s2.status_message.msg \in msgs
    /\ ~s2.search_mode
    /\ ~s2.command_mode
    /\ s2.command_input = <<>>
    /\ s2.screen_stack = <<"MainScreen">>
    /\ s2.current_table = s.current_table
    /\ \A k \in TableNames :
          /\ Cells(s2.tables[k]) = Cells(s.tables[k])
          /\ s2.tables[k].cursor_row = s.tables[k].cursor_row
          /\ s2.tables[k].cursor_column = s.tables[k].cursor_column

\* a search line whose pattern no cell of the table t matches
NoMatchLine(line, t) ==
    /\ startswith(line, "/")
    /\ Strip(Tail(line)) # <<>>
    /\ ExpectedMatches(t, Upper(Strip(Tail(line)))) = {}

\* a command line whose leading token is no verb
UnknownCommandLine(line) ==
    /\ startswith(line, ":")
    /\ split(Tail(line)) # <<>>
    /\ Lower(split(Tail(line))[1]) \notin
          {VerbHelp, VerbQuit, VerbQ, VerbExport, VerbRetune, VerbLoad}

\* a command line whose verb lacks its arguments
MissingArgumentLine(line) ==
    /\ startswith(line, ":")
    /\ split(Tail(line)) # <<>>
    /\ \/ Lower(split(Tail(line))[1]) \in {VerbExport, VerbLoad} /\ Len(split(Tail(line))) < 2
       \/ Lower(split(Tail(line))[1]) = VerbRetune /\ Len(split(Tail(line))) < 8

\* the export commands whose file cannot be written
ExportCommands ==
    {<<"e", "x", "p", "o", "r", "t", " ", "o">>,
     <<"E", "x", "p", "o", "r", "t", " ", "/", "o", " ", "x">>}

\* the failure of the line confirmed on s is reported and nothing else is lost
FailureReported(s, line, after) ==
    /\ NoMatchLine(line, focused_table(s)) => ReportedAndKept(s, after, {"not_found"})
    /\ UnknownCommandLine(line) => ReportedAndKept(s, after, {"unknown_command"})
    /\ MissingArgumentLine(line) =>
          ReportedAndKept(s, after, {"usage_export", "usage_retune", "usage_load"})

\* C22: a search with no match, an unknown command, a command with missing
\* arguments and an export that cannot write each end in a status message, with
\* no mode on, the session alive and the cells, the cursors and the focus as
\* they were before the line was confirmed.
FailuresBecomeStatus ==
    (OnMainScreen /\ InMode) =>
        /\ FailureReported(Cur, Strip(screen.command_input), key_event(Cur, "enter", 0, FALSE))
        /\ screen.command_mode =>
              \A command \in ExportCommands :
                  ReportedAndKept(Cur, leave_command_line(execute_command(Cur, command, FALSE)),
                                  {"export_failed"})

\* a search for x was confirmed over the matches of an earlier search, with the
\* cursor off the first row: nothing matched, the status says so, the cursor stayed
NoMatchReported ==
    /\ Confirmed
    /\ ret.pattern = <<"/", "x">>
    /\ ret.before.search_matches # <<>>
    /\ ret.before.cursor_row = 1
    /\ screen.status_message = Status("not_found", 0, 0, <<"x">>)
    /\ tables[ret.table].cursor_row = 1
    /\ tables[ret.table].search_matches = <<>>
    /\ screen.screen_stack = <<"MainScreen">>

(***************************************************************************)
(* The two ways a cell fails to be computed, checked under SpecBuild.      *)
(***************************************************************************)
\* interval names that INTERVAL_MAP does not hold
UnknownIntervals == {"tritone", "minor13"}

\* C23: for a caller computing a cell, the outcome 'interval name not found'
\* differs from the outcome 'transposition failed': an unknown interval over a
\* well-formed open string and a known interval over a malformed open string
\* do not give the same result value.
NotFoundDistinctFromFailed ==
    calculator.state = "built" =>
        \A i \in 1..NumStrings, j \in 1..NumStrings, unknown \in UnknownIntervals :
            (~Note(calculator.tuning[i]).ok /\ Note(calculator.tuning[j]).ok) =>
                calculate_note(calculator.tuning[j], unknown)
                    # calculate_note(calculator.tuning[i], ANYIN_POSITIONS[1][2])

(***************************************************************************)
(* The two widgets side by side, checked under SpecScreen.                 *)
(***************************************************************************)
\* the keys of search confirmation, match cycling, highlight-current, cursor
\* moves and jumps
NavigationKeys ==
    {"enter", "n", "N", "asterisk", "g", "G", "h", "j", "k", "l", "ctrl+d", "ctrl+u"}

\* C24: search, next and previous match, highlight-current, cursor moves and
\* jumps act on the focused table only: the cursor, the highlighted names, the
\* matches and the match index of the other table stay as they were.
OtherTableUntouched ==
    [][(OnMainScreen /\ ret'.op \in NavigationKeys) =>
          \A k \in TableNames \ {current_table} : tables'[k] = tables[k]]_vars

\* a note was highlighted on the stopped table while the harmonics table held
\* its own highlight, matches and cursor
HighlightBesideOtherTable ==
    /\ ret.op = "asterisk"
    /\ ret.table = "stopped"
    /\ ret.before.highlighted_notes = {}
    /\ tables["stopped"].highlighted_notes # {}
    /\ tables["harmonics"].highlighted_notes # {}
    /\ tables["harmonics"].highlighted_notes # tables["stopped"].highlighted_notes
    /\ tables["harmonics"].current_match_index = 1
    /\ tables["harmonics"].cursor_row > 0
    /\ tables["stopped"].search_matches = <<>>

\* build(tuning, catalog) for the tunings the interface is started with, each
\* table computed once
BuiltTables ==
    [tuning \in StartTunings |->
        [stopped |-> calculate_table(tuning, ANYIN_POSITIONS),
         harmonics |-> calculate_table(tuning, FANYIN_POSITIONS)]]

\* C25: the positions, intervals and cells of both tables are, after any
\* sequence of navigation, search, highlight, clear, focus and command
\* operations, those built from the tuning and the catalog.
CellsAsBuilt ==
    \A k \in TableNames : Cells(tables[k]) = BuiltTables[calculator.tuning][k]

\* Escape has cleared a highlight and the matches of a table with an empty
\* column, after a search and a highlight: the cells are still those built
ClearedOverBuiltCells ==
    /\ ret.op = "escape"
    /\ ret.before.highlighted_notes # {}
    /\ ret.before.search_matches # <<>>
    /\ tables[ret.table].highlighted_notes = {}
    /\ calculator.tuning # DefaultTuning
    /\ \A r \in 1..Len(ANYIN_POSITIONS) : tables["stopped"].strings_data[2][r] = <<>>
    /\ tables["stopped"].strings_data[1][1] = <<"D", "4">>
    /\ steps > 0

(***************************************************************************)
(* Half-page moves, checked under Spec.                                    *)
(***************************************************************************)
\* the step of a half-page move in a viewport `height` lines high
HalfPageStep(height) == IF height < 8 THEN 1 ELSE height \div 4

WrongLengthTunings == {tuning \in TuningInputs : Len(tuning) # 7}

\* column c of the widget t, c from 1 to 7, shows on every row the note of
\* token c of the tuning (index c - 1 in the code) raised by the row's interval
ColumnsFollowTuning(t, tuning) ==
    \A c \in 1..7, r \in 0..(Len(t.positions) - 1) :
        get_current_note(move_cursor(t, r, c)) =
            Some(IF Note(tuning[c]).ok
                 THEN get_note_name(transpose(Note(tuning[c]), INTERVAL_MAP[t.intervals[r + 1]]))
                 ELSE <<>>)

\* C27: a tuning whose length is not exactly 7 makes the construction fail with
\* an error and neither table is computed; with exactly 7 tokens, index 0..6 of
\* the tuning is string 1..7 and table column 1..7, in that order.
SevenStringsOrError ==
    /\ calculator.state = "none" =>
          \A tuning \in WrongLengthTunings :
              /\ GuqinTuningCalculator(tuning).state = "ValueError"
              /\ GuqinTuningCalculator(tuning).anyin_table = EmptyTable
              /\ GuqinTuningCalculator(tuning).fanyin_table = EmptyTable
    /\ calculator.state = "ValueError" =>
          /\ calculator.anyin_table = EmptyTable
          /\ calculator.fanyin_table = EmptyTable
          /\ \E tuning \in WrongLengthTunings : calculator = GuqinTuningCalculator(tuning)
    /\ calculator.state = "built" =>
          /\ Len(calculator.tuning) = 7
          /\ ColumnsFollowTuning(PositionTable("stopped_notes", calculator.anyin_table),
                                 calculator.tuning)
          /\ ColumnsFollowTuning(PositionTable("harmonics", calculator.fanyin_table),
                                 calculator.tuning)

\* the construction was refused for a tuning of 6 or of 8 tokens
WrongLengthRefused ==
    /\ calculator.state = "ValueError"
    /\ calculator.anyin_table = EmptyTable
    /\ {Len(tuning) : tuning \in WrongLengthTunings} = {6, 8}

(***************************************************************************)
(* The search state of each table, checked under Spec.                     *)
(***************************************************************************)
\* the match list and the match index of the widget t agree, and every match
\* is a non-empty note cell of the grid
SearchStateConsistent(t) ==
    /\ \/ t.search_matches = <<>> /\ t.current_match_index = -1
       \/ /\ t.search_matches # <<>>
          /\ 0 <= t.current_match_index
          /\ t.current_match_index < Len(t.search_matches)
    /\ \A i \in 1..Len(t.search_matches) :
          LET row == t.search_matches[i][1]
              col == t.search_matches[i][2]
          IN  /\ 0 <= row
              /\ row < Len(t.positions)
              /\ 1 <= col
              /\ col <= 7
              /\ t.strings_data[col][row + 1] # <<>>

\* C28: after every complete operation each table's search state is
\* consistent: the matches are empty and the index is -1, or the matches are
\* not empty and 0 <= index < len(matches); every match (row, col) has
\* 0 <= row < P, 1 <= col <= 7 and is a non-empty cell.
SearchStateIsConsistent == \A k \in TableNames : SearchStateConsistent(tables[k])

\* previous match from the first of several matches: the index is the last
PrevWrappedToLast ==
    /\ ret.op = "prev_match"
    /\ ret.before.current_match_index = 0
    /\ Len(tables[ret.table].search_matches) > 1
    /\ tables[ret.table].current_match_index = Len(tables[ret.table].search_matches) - 1

(***************************************************************************)
(* The mode and the input buffer, checked under SpecScreen.                *)
(***************************************************************************)
\* C29: Search and Command mode are never on together, the screen starts with
\* no mode on, and the input buffer follows the mode: empty in Normal,
\* beginning with '/' in Search and with ':' in Command; entering either mode,
\* from any mode, leaves the buffer holding exactly that sigil.
BufferTracksMode ==
    /\ ~(screen.search_mode /\ screen.command_mode)
    /\ ~MainScreen(calculator).search_mode
    /\ ~MainScreen(calculator).command_mode
    /\ MainScreen(calculator).command_input = <<>>
    /\ ret.op = "mount" => ~InMode
    /\ ~InMode => screen.command_input = <<>>
    /\ screen.search_mode => startswith(screen.command_input, "/")
    /\ screen.command_mode => startswith(screen.command_input, ":")
    /\ (ret.op = "slash" /\ ret.count = 1) =>
          screen.search_mode /\ screen.command_input = <<"/">>
    /\ (ret.op = "colon" /\ ret.count = 1) =>
          screen.command_mode /\ screen.command_input = <<":">>

\* the key / was pressed while a command was being typed: Search mode is on
\* alone and the buffer holds the '/' only
SearchEnteredFromCommand ==
    /\ ret.op = "slash"
    /\ ret.ok
    /\ startswith(ret.pattern, ":")
    /\ Len(ret.pattern) > 1
    /\ screen.search_mode
    /\ ~screen.command_mode
    /\ screen.command_input = <<"/">>

(***************************************************************************)
(* Search beside highlight, checked under SpecScreen.                      *)
(***************************************************************************)
\* the key event confirmed a search line
SearchConfirmed == Confirmed /\ startswith(ret.pattern, "/")

\* C30: a confirmed search, next match and previous match never change the
\* highlighted names of the table; highlight-current never changes its matches
\* or its match index; Escape is the only key that changes both.
SearchAndHighlightOrthogonal ==
    ret.count = 1 =>
        /\ (SearchConfirmed \/ ret.op \in {"n", "N"}) =>
              tables[ret.table].highlighted_notes = ret.before.highlighted_notes
        /\ ret.op = "asterisk" =>
              /\ tables[ret.table].search_matches = ret.before.search_matches
              /\ tables[ret.table].current_match_index = ret.before.current_match_index
        /\ (/\ tables[ret.table].highlighted_notes # ret.before.highlighted_notes
            /\ \/ tables[ret.table].search_matches # ret.before.search_matches
               \/ tables[ret.table].current_match_index # ret.before.current_match_index) =>
              ret.op = "escape"

\* highlight-current on the second match of a search, over another highlighted
\* name: the name is replaced, the matches and the index stay
HighlightedOverMatches ==
    /\ ret.op = "asterisk"
    /\ ret.before.current_match_index = 1
    /\ Len(ret.before.search_matches) > 1
    /\ ret.before.highlighted_notes # {}
    /\ tables[ret.table].highlighted_notes # ret.before.highlighted_notes
    /\ tables[ret.table].highlighted_notes # {}
    /\ tables[ret.table].search_matches = ret.before.search_matches
    /\ tables[ret.table].current_match_index = 1

(***************************************************************************)
(* The tables the main screen is created over, checked under SpecBuild.    *)
(***************************************************************************)
\* C31: for a calculator built from 7 pitches, the stopped-notes widget the
\* screen creates wraps exactly the table built from the 19 stopped positions
\* and the harmonics widget the table built from the 17 harmonics positions,
\* so the screen with both tables populated comes to exist.
ScreenWrapsBuiltTables ==
    calculator.state = "built" =>
        /\ create_stopped_table(calculator).raised = "none"
        /\ create_stopped_table(calculator).widget =
              PositionTable("stopped_notes", calculate_table(calculator.tuning, ANYIN_POSITIONS))
        /\ Len(create_stopped_table(calculator).widget.positions) = 19
        /\ create_harmonics_table(calculator).raised = "none"
        /\ create_harmonics_table(calculator).widget =
              PositionTable("harmonics", calculate_table(calculator.tuning, FANYIN_POSITIONS))
        /\ Len(create_harmonics_table(calculator).widget.positions) = 17

(***************************************************************************)
(* The catalogs against the interval map, checked under SpecBuild.         *)
(***************************************************************************)
\* every token of the tuning is a pitch Note() accepts
ValidTuning(tuning) == \A i \in 1..Len(tuning) : Note(tuning[i]).ok

\* no cell of the table is empty
NoEmptyCell(table) ==
    \A i \in 1..Len(table.strings), r \in 1..Len(table.positions) : table.strings[i][r] # <<>>

\* on every string the pitch falls from each row of the table to the next
PitchFallsByRow(table) ==
    \A i \in 1..Len(table.strings), r \in 1..(Len(table.positions) - 1) :
        Note(table.strings[i][r + 1]).midi_number < Note(table.strings[i][r]).midi_number

\* C32: every interval name of the two catalogs has a semitone mapping, so for
\* a tuning of 7 valid pitches no cell of either table is empty; and in the
\* stopped-notes table the pitch of each string strictly decreases from each
\* row to the next, the catalog's semitones falling from 28 to 2.
CatalogsFullyMapped ==
    /\ \A r \in 1..Len(ANYIN_POSITIONS) : get_semitones(ANYIN_POSITIONS[r][2]).some
    /\ \A r \in 1..Len(FANYIN_POSITIONS) : get_semitones(FANYIN_POSITIONS[r][2]).some
    /\ get_semitones(ANYIN_POSITIONS[1][2]).value = 28
    /\ get_semitones(ANYIN_POSITIONS[Len(ANYIN_POSITIONS)][2]).value = 2
    /\ \A r \in 1..(Len(ANYIN_POSITIONS) - 1) :
          get_semitones(ANYIN_POSITIONS[r + 1][2]).value < get_semitones(ANYIN_POSITIONS[r][2]).value
    /\ (calculator.state = "built" /\ ValidTuning(calculator.tuning)) =>
          /\ NoEmptyCell(calculator.anyin_table)
          /\ NoEmptyCell(calculator.fanyin_table)
          /\ PitchFallsByRow(calculator.anyin_table)

\* tables built from seven valid, respelled pitches, one with a negative
\* octave: the fifth string falls from C sharp 2 to B-1
RespelledTuningFullyBuilt ==
    /\ calculator.state = "built"
    /\ ValidTuning(calculator.tuning)
    /\ calculator.tuning[1] = <<"B", "b", "1">>
    /\ calculator.tuning[5] = <<"A", "-", "1">>
    /\ calculator.anyin_table.strings[5][1] = <<"C", SHARP, "2">>
    /\ calculator.anyin_table.strings[5][19] = <<"B", "-", "1">>
    /\ NoEmptyCell(calculator.fanyin_table)

(***************************************************************************)
(* The symmetry of the harmonics table, checked under SpecBuild.           *)
(***************************************************************************)
\* the labels of the harmonics positions, in the order they are listed
HarmonicsLabels ==
    <<"anhui4", "hui13", "anhui3", "hui12", "hui11", "hui10", "hui9", "hui8", "hui7",
      "hui6", "hui5", "hui4", "hui3", "hui2", "anhui2", "hui1", "anhui1">>

\* row r of the table, counted from 1, mirrors row 18 - r (rows i and 16 - i
\* counted from 0)
MirrorSymmetric(table) ==
    /\ Len(table.positions) = 17
    /\ \A r \in 1..17 :
          /\ table.intervals[r] = table.intervals[18 - r]
          /\ \A i \in 1..Len(table.strings) : table.strings[i][r] = table.strings[i][18 - r]

\* the pitch of string i neither only rises nor only falls down the rows
NonMonotonic(table, i) ==
    /\ \E r \in 1..16 :
          Note(table.strings[i][r]).midi_number < Note(table.strings[i][r + 1]).midi_number
    /\ \E r \in 1..16 :
          Note(table.strings[i][r]).midi_number > Note(table.strings[i][r + 1]).midi_number

\* C33: the harmonics table is mirror-symmetric about its middle row: for every
\* tuning, string and row i in 0..16 the cell at row i equals the cell at row
\* 16 - i, the interval column being a palindrome around the octave row 8; the
\* rows are in catalog order, which is not monotonic in pitch.
HarmonicsMirrorSymmetric ==
    calculator.state = "built" =>
        /\ MirrorSymmetric(calculator.fanyin_table)
        /\ calculator.fanyin_table.intervals[9] = "octave"
        /\ calculator.fanyin_table.positions = HarmonicsLabels
        /\ \A i \in 1..7 :
              Note(calculator.tuning[i]).ok => NonMonotonic(calculator.fanyin_table, i)

\* harmonics built from C2 D2 F2 G2 A2 C3 D3: string 1 has A3 on the first and
\* last row, C5 on the second, C3 on the middle row
DefaultHarmonicsMirrored ==
    /\ calculator.state = "built"
    /\ calculator.tuning = DefaultTuning
    /\ calculator.fanyin_table.strings[1][1] = <<"A", "3">>
    /\ calculator.fanyin_table.strings[1][17] = <<"A", "3">>
    /\ calculator.fanyin_table.strings[1][2] = <<"C", "5">>
    /\ calculator.fanyin_table.strings[1][9] = <<"C", "3">>

(***************************************************************************)
(* What the keys do to the input buffer, checked under SpecScreen.         *)
(***************************************************************************)
\* the buffer holds a white-space character after its first character
BlankAfterSigil(buffer) == \E i \in 2..Len(buffer) : IsSpace(buffer[i])

\* C34: while Search or Command mode is on, a key event appends its key to
\* the input buffer if and only if the key name is exactly one printable
\* character; enter, escape and backspace apart, every other key name leaves
\* the buffer unchanged; and no reachable buffer holds white space after the
\* sigil.
KeysAppendIffPrintable ==
    /\ (ret.ok /\ ret.count = 1) =>
          /\ is_printable_key(ret.op) => screen.command_input = Append(ret.pattern, ret.op)
          /\ (~is_printable_key(ret.op) /\ ret.op \notin {"enter", "escape", "backspace"}) =>
                screen.command_input = ret.pattern
    /\ ~BlankAfterSigil(screen.command_input)

====
